---- MODULE Spec2Model ----
(***************************************************************************)
(* A model of the ananke chess move generator: bitboards, the move         *)
(* encoding, the position (Board), FEN ingestion, the pseudo-legal move    *)
(* generator, make_move, the attack query, perft and the magic-bitboard    *)
(* table builder.                                                          *)
(*                                                                         *)
(* A Bitboard (u64) is modelled as the set of its set bit positions, a     *)
(* subset of 0..63; a shift drops the bits that leave the 64-bit word.     *)
(* An Option<T> is modelled as a set with at most one element.             *)
(***************************************************************************)
EXTENDS Integers, Sequences, FiniteSets, TLC

\* ------------------------------------------------------------------------
\* Bounds of the model
\* ------------------------------------------------------------------------
MaxPly == 2

\* the passes of find_magic's loop that are followed for a square
MaxTries == 100

\* the most set bits of the sparse bitboards on which pop_lsb is called
MaxBits == 2

\* the greatest depth perft is called with on a loaded position
MaxDepth == 2

\* ------------------------------------------------------------------------
\* bitboard.rs : Square
\* ------------------------------------------------------------------------
Squares == 0..63

A1 == 0
B1 == 1
C1 == 2
D1 == 3
E1 == 4
F1 == 5
G1 == 6
H1 == 7
A8 == 56
B8 == 57
C8 == 58
D8 == 59
E8 == 60
F8 == 61
G8 == 62
H8 == 63

rank(sq) == sq \div 8
file(sq) == sq % 8

\* ------------------------------------------------------------------------
\* bitboard.rs : Bitboard
\* ------------------------------------------------------------------------
EMPTY == {}

\* u64 << n and u64 >> n : bits shifted out of the word are lost
Shl(bb, n) == {s + n : s \in bb} \cap Squares
Shr(bb, n) == {s - n : s \in bb} \cap Squares

set_bit(bb, sq) == bb \cup ({sq} \cap Squares)
get_bit(bb, sq) == sq \in bb
clear_bit(bb, sq) == bb \ {sq}
count(bb) == Cardinality(bb)

\* trailing_zeros of a non-zero word; None (the empty set) on zero
lsb_index(bb) == IF bb = {} THEN {} ELSE {CHOOSE s \in bb : \A t \in bb : s <= t}

\* self.0 - 1 on a non-zero word: the lowest set bit is cleared and every bit
\* below it is set
MinusOne(bb) == LET l == CHOOSE s \in bb : \A t \in bb : s <= t
                IN (bb \ {l}) \cup {s \in Squares : s < l}

\* pop_lsb that yields the lowest set bit and leaves the word as it was
pop_lsb_kept(bb) == [sq |-> lsb_index(bb), bb |-> bb]

\* pop_lsb: the popped square (an Option) and the word left behind
pop_lsb(bb) == IF lsb_index(bb) = {}
               THEN [sq |-> {}, bb |-> bb]
               ELSE [sq |-> lsb_index(bb), bb |-> bb \cap MinusOne(bb)]

\* the squares yielded by `while let Some(sq) = bb.pop_lsb()`, in order
RECURSIVE PopSeq(_)
PopSeq(bb) == LET p == pop_lsb(bb)
              IN IF p.sq = {} THEN <<>>
                 ELSE <<CHOOSE s \in p.sq : TRUE>> \o PopSeq(p.bb)

\* the file masks of movegen.rs
NOT_A_FILE == {s \in Squares : file(s) # 0}
NOT_H_FILE == {s \in Squares : file(s) # 7}
NOT_AB_FILE == {s \in Squares : file(s) > 1}
NOT_GH_FILE == {s \in Squares : file(s) < 6}

\* ------------------------------------------------------------------------
\* types.rs : Color, PieceType, Move, CastlingRights
\* ------------------------------------------------------------------------
White == "White"
Black == "Black"
opposite(c) == IF c = White THEN Black ELSE White

Pawn == 0
Knight == 1
Bishop == 2
Rook == 3
Queen == 4
King == 5
PieceTypes == 0..5

QUIET == 0
DOUBLE_PAWN_PUSH == 1
K_CASTLE == 2
Q_CASTLE == 3
CAPTURE == 4
EP_CAPTURE == 5
N_PROMO == 8
B_PROMO == 9
R_PROMO == 10
Q_PROMO == 11
N_PROMO_CAP == 12
B_PROMO_CAP == 13
R_PROMO_CAP == 14
Q_PROMO_CAP == 15

\* Move(flag << 12 | from << 6 | to) in a u16
Move_new(from, to, flag) == ((flag * 4096) % 65536) + (from * 64) + to
\* from() with a seven-bit mask
Move_from_seven_bits(m) == (m \div 64) % 128
Move_from(m) == (m \div 64) % 64
Move_to(m) == m % 64
Move_flag(m) == m \div 4096
is_capture(m) == (m \div 16384) % 2 = 1
is_promotion(m) == (m \div 32768) % 2 = 1

WHITE_KINGSIDE == 1
WHITE_QUEENSIDE == 2
BLACK_KINGSIDE == 4
BLACK_QUEENSIDE == 8

\* CastlingRights(u8) is modelled as the set of the bit values that are set
CastlingRights_new == {}
CastlingRights_remove(rights, mask) == rights \ mask
can_castle_kingside(rights, color) ==
    IF color = White THEN WHITE_KINGSIDE \in rights ELSE BLACK_KINGSIDE \in rights
can_castle_queenside(rights, color) ==
    IF color = White THEN WHITE_QUEENSIDE \in rights ELSE BLACK_QUEENSIDE \in rights

\* ------------------------------------------------------------------------
\* board.rs : Board
\* ------------------------------------------------------------------------
Board_new == [white_pieces |-> [i \in PieceTypes |-> EMPTY],
              black_pieces |-> [i \in PieceTypes |-> EMPTY],
              white_occupancy |-> EMPTY,
              black_occupancy |-> EMPTY,
              all_occupancy |-> EMPTY,
              side_to_move |-> White,
              castling_rights |-> CastlingRights_new,
              en_passant_sq |-> {},
              halfmove_clock |-> 0]

\* a faulty update_occupancies: the combined occupancy is left as it was
update_occupancies_stale(b) ==
    LET w == UNION {b.white_pieces[i] : i \in PieceTypes}
        k == UNION {b.black_pieces[i] : i \in PieceTypes}
    IN [b EXCEPT !.white_occupancy = w,
                 !.black_occupancy = k]

update_occupancies(b) ==
    LET w == UNION {b.white_pieces[i] : i \in PieceTypes}
        k == UNION {b.black_pieces[i] : i \in PieceTypes}
    IN [b EXCEPT !.white_occupancy = w,
                 !.black_occupancy = k,
                 !.all_occupancy = w \cup k]

pieces_of(b, color) == IF color = White THEN b.white_pieces ELSE b.black_pieces

\* the first piece set of `color` that holds sq (an Option)
get_piece_type_at(b, sq, color) ==
    LET hit == {i \in PieceTypes : get_bit(pieces_of(b, color)[i], sq)}
    IN IF hit = {} THEN {} ELSE {CHOOSE i \in hit : \A j \in hit : i <= j}

\* a faulty remove_piece: the colour test is inverted
remove_piece_other_colour(b, pt, color, sq) ==
    IF color = White
    THEN [b EXCEPT !.black_pieces[pt] = clear_bit(@, sq)]
    ELSE [b EXCEPT !.white_pieces[pt] = clear_bit(@, sq)]

remove_piece(b, pt, color, sq) ==
    IF color = White
    THEN [b EXCEPT !.white_pieces[pt] = clear_bit(@, sq)]
    ELSE [b EXCEPT !.black_pieces[pt] = clear_bit(@, sq)]

add_piece(b, pt, color, sq) ==
    IF color = White
    THEN [b EXCEPT !.white_pieces[pt] = set_bit(@, sq)]
    ELSE [b EXCEPT !.black_pieces[pt] = set_bit(@, sq)]

\* kings.lsb_index() (an Option; the code panics "Board has no King!" on None)
get_king_square(b, color) == lsb_index(pieces_of(b, color)[King])

Abs(x) == IF x < 0 THEN -x ELSE x

\* the castling bits of a colour
BothSides(color) == IF color = White THEN {WHITE_KINGSIDE, WHITE_QUEENSIDE}
                    ELSE {BLACK_KINGSIDE, BLACK_QUEENSIDE}

\* make_move step 2: the rook of a castling king
\* a faulty castling step: the h-file rook is moved on either side
castle_rook_h_file(next, us, from, to) ==
    LET rook_from == IF us = White THEN H1 ELSE H8
        rook_to == IF us = White THEN F1 ELSE F8
        moved == add_piece(remove_piece(next, Rook, us, rook_from), Rook, us, rook_to)
    IN [moved EXCEPT !.castling_rights = CastlingRights_remove(@, BothSides(us))]

castle_rook(next, us, from, to) ==
    LET rook_from == IF to > from THEN (IF us = White THEN H1 ELSE H8)
                     ELSE (IF us = White THEN A1 ELSE A8)
        rook_to == IF to > from THEN (IF us = White THEN F1 ELSE F8)
                   ELSE (IF us = White THEN D1 ELSE D8)
        moved == add_piece(remove_piece(next, Rook, us, rook_from), Rook, us, rook_to)
    IN [moved EXCEPT !.castling_rights = CastlingRights_remove(@, BothSides(us))]

\* a faulty capture step: an ordinary capture leaves the captured piece in
\* its set
capture_piece_kept(self, next, m, us, them) ==
    IF Move_flag(m) = EP_CAPTURE
    THEN remove_piece(next, Pawn, them, IF us = White THEN Move_to(m) - 8 ELSE Move_to(m) + 8)
    ELSE next

\* make_move step 3: captures (self is the position before the move)
capture_piece(self, next, m, us, them) ==
    LET to == Move_to(m)
        cap_sq == IF us = White THEN to - 8 ELSE to + 8
        captured == get_piece_type_at(self, to, them)
        captured_type == CHOOSE p \in captured : TRUE
        removed == remove_piece(next, captured_type, them, to)
        lost == IF captured_type # Rook THEN {}
                ELSE IF them = White
                     THEN (IF to = A1 THEN {WHITE_QUEENSIDE} ELSE {})
                          \cup (IF to = H1 THEN {WHITE_KINGSIDE} ELSE {})
                     ELSE (IF to = A8 THEN {BLACK_QUEENSIDE} ELSE {})
                          \cup (IF to = H8 THEN {BLACK_KINGSIDE} ELSE {})
    IN IF Move_flag(m) = EP_CAPTURE
       THEN remove_piece(next, Pawn, them, cap_sq)
       ELSE IF captured = {} THEN next
       ELSE [removed EXCEPT !.castling_rights = CastlingRights_remove(@, lost)]

\* make_move step 4: the promoted piece type
promo_type(f) == IF f \in {N_PROMO, N_PROMO_CAP} THEN Knight
                 ELSE IF f \in {B_PROMO, B_PROMO_CAP} THEN Bishop
                 ELSE IF f \in {R_PROMO, R_PROMO_CAP} THEN Rook
                 ELSE Queen

\* a faulty step 5: only a king move clears castling rights
moved_rights_king_only(piece_type, us, from, to) ==
    IF piece_type = King THEN BothSides(us) ELSE {}

\* make_move step 5: castling rights lost by a king or rook move
moved_rights(piece_type, us, from, to) ==
    (IF piece_type = King THEN BothSides(us) ELSE {})
    \cup (IF piece_type = Rook /\ (from = A1 \/ to = A1) THEN {WHITE_QUEENSIDE} ELSE {})
    \cup (IF piece_type = Rook /\ (from = H1 \/ to = H1) THEN {WHITE_KINGSIDE} ELSE {})
    \cup (IF piece_type = Rook /\ (from = A8 \/ to = A8) THEN {BLACK_QUEENSIDE} ELSE {})
    \cup (IF piece_type = Rook /\ (from = H8 \/ to = H8) THEN {BLACK_KINGSIDE} ELSE {})

\* a faulty step 6: the en-passant square is taken on White's side of `from`
\* for both colours
next_en_passant_white_side(m, us) ==
    IF Move_flag(m) = DOUBLE_PAWN_PUSH
    THEN {Move_from(m) + 8}
    ELSE {}

\* make_move step 6: the en-passant square left by the move
next_en_passant(m, us) ==
    IF Move_flag(m) = DOUBLE_PAWN_PUSH
    THEN {IF us = White THEN Move_from(m) + 8 ELSE Move_from(m) - 8}
    ELSE {}

\* the fatal paths of make_move: the messages of the expect()/panic!() it hits
make_move_panics(self, m) ==
    LET us == self.side_to_move
        them == opposite(us)
    IN (IF get_piece_type_at(self, Move_from(m), us) = {}
        THEN {"No piece at from square"} ELSE {})
       \cup (IF is_capture(m) /\ Move_flag(m) # EP_CAPTURE
                /\ get_piece_type_at(self, Move_to(m), them) = {}
             THEN {"Capture but no enemy"} ELSE {})
       \cup (IF is_promotion(m) /\ Move_flag(m) \notin 8..15
             THEN {"Invalid promo flag"} ELSE {})

\* Board::make_move on a move that reaches none of its fatal paths
make_move(self, m) ==
    LET from == Move_from(m)
        to == Move_to(m)
        us == self.side_to_move
        them == opposite(us)
        piece_type == CHOOSE p \in get_piece_type_at(self, from, us) : TRUE
        n1 == add_piece(remove_piece(self, piece_type, us, from), piece_type, us, to)
        n2 == IF piece_type = King /\ Abs(from - to) = 2
              THEN castle_rook(n1, us, from, to) ELSE n1
        n3 == IF is_capture(m) THEN capture_piece(self, n2, m, us, them) ELSE n2
        n4 == IF is_promotion(m)
              THEN add_piece(remove_piece(n3, Pawn, us, to), promo_type(Move_flag(m)), us, to)
              ELSE n3
        n5 == [n4 EXCEPT !.castling_rights =
                            CastlingRights_remove(@, moved_rights(piece_type, us, from, to))]
        n6 == [n5 EXCEPT !.side_to_move = them,
                         !.en_passant_sq = next_en_passant(m, us)]
    IN update_occupancies(n6)

\* ------------------------------------------------------------------------
\* movegen.rs : leaper and slow slider attack generators
\* ------------------------------------------------------------------------
\* generate_knight_attacks with the two-file jumps guarded by the one-file
\* masks
generate_knight_attacks_one_file(sq) ==
    LET b == {sq}
    IN (IF b \cap NOT_H_FILE # {} THEN Shl(b, 17) ELSE {})
       \cup (IF b \cap NOT_A_FILE # {} THEN Shl(b, 15) ELSE {})
       \cup (IF b \cap NOT_H_FILE # {} THEN Shr(b, 15) ELSE {})
       \cup (IF b \cap NOT_A_FILE # {} THEN Shr(b, 17) ELSE {})
       \cup (IF b \cap NOT_H_FILE # {} THEN Shl(b, 10) ELSE {})
       \cup (IF b \cap NOT_A_FILE # {} THEN Shl(b, 6) ELSE {})
       \cup (IF b \cap NOT_H_FILE # {} THEN Shr(b, 6) ELSE {})
       \cup (IF b \cap NOT_A_FILE # {} THEN Shr(b, 10) ELSE {})

generate_knight_attacks(sq) ==
    LET b == {sq}
    IN (IF b \cap NOT_H_FILE # {} THEN Shl(b, 17) ELSE {})
       \cup (IF b \cap NOT_A_FILE # {} THEN Shl(b, 15) ELSE {})
       \cup (IF b \cap NOT_H_FILE # {} THEN Shr(b, 15) ELSE {})
       \cup (IF b \cap NOT_A_FILE # {} THEN Shr(b, 17) ELSE {})
       \cup (IF b \cap NOT_GH_FILE # {} THEN Shl(b, 10) ELSE {})
       \cup (IF b \cap NOT_AB_FILE # {} THEN Shl(b, 6) ELSE {})
       \cup (IF b \cap NOT_GH_FILE # {} THEN Shr(b, 6) ELSE {})
       \cup (IF b \cap NOT_AB_FILE # {} THEN Shr(b, 10) ELSE {})

generate_king_attacks(sq) ==
    LET b == {sq}
    IN Shl(b, 8) \cup Shr(b, 8)
       \cup (IF b \cap NOT_H_FILE # {}
             THEN Shl(b, 1) \cup Shl(b, 9) \cup Shr(b, 7) ELSE {})
       \cup (IF b \cap NOT_A_FILE # {}
             THEN Shr(b, 1) \cup Shl(b, 7) \cup Shr(b, 9) ELSE {})

generate_pawn_attacks(sq, color) ==
    LET b == {sq}
    IN IF color = White
       THEN (IF b \cap NOT_H_FILE # {} THEN Shl(b, 9) ELSE {})
            \cup (IF b \cap NOT_A_FILE # {} THEN Shl(b, 7) ELSE {})
       ELSE (IF b \cap NOT_H_FILE # {} THEN Shr(b, 7) ELSE {})
            \cup (IF b \cap NOT_A_FILE # {} THEN Shr(b, 9) ELSE {})

\* one ray of the slow walk: for i in i..7, stop off the board, add the
\* square, stop after a blocker
RECURSIVE walk_ray(_, _, _, _, _, _)
walk_ray(tr, tf, dr, df, i, blockers) ==
    LET r == tr + (dr * i)
        f == tf + (df * i)
        current_sq == (r * 8) + f
    IN IF i > 7 \/ r < 0 \/ r > 7 \/ f < 0 \/ f > 7 THEN {}
       ELSE IF get_bit(blockers, current_sq) THEN {current_sq}
       ELSE {current_sq} \cup walk_ray(tr, tf, dr, df, i + 1, blockers)

BishopDirs == {<<1, 1>>, <<1, -1>>, <<-1, 1>>, <<-1, -1>>}
RookDirs == {<<1, 0>>, <<-1, 0>>, <<0, 1>>, <<0, -1>>}

generate_bishop_attacks_slow(sq, blockers) ==
    UNION {walk_ray(rank(sq), file(sq), d[1], d[2], 1, blockers) : d \in BishopDirs}

generate_rook_attacks_slow(sq, blockers) ==
    UNION {walk_ray(rank(sq), file(sq), d[1], d[2], 1, blockers) : d \in RookDirs}

\* ------------------------------------------------------------------------
\* magic.rs : relevance masks and the lookups
\* ------------------------------------------------------------------------
\* a faulty mask_rook: the board's edge squares are dropped whatever the
\* square, also on the rank or file the rook stands on
mask_rook_no_edges(sq) ==
    LET tr == rank(sq)
        tf == file(sq)
    IN {(r * 8) + tf : r \in ((tr + 1)..6) \cap (IF tf \in {0, 7} THEN {} ELSE 0..7)}
       \cup {(r * 8) + tf : r \in (1..(tr - 1)) \cap (IF tf \in {0, 7} THEN {} ELSE 0..7)}
       \cup {(tr * 8) + f : f \in ((tf + 1)..6) \cap (IF tr \in {0, 7} THEN {} ELSE 0..7)}
       \cup {(tr * 8) + f : f \in (1..(tf - 1)) \cap (IF tr \in {0, 7} THEN {} ELSE 0..7)}

mask_rook(sq) ==
    LET tr == rank(sq)
        tf == file(sq)
    IN {(r * 8) + tf : r \in (tr + 1)..6} \cup {(r * 8) + tf : r \in 1..(tr - 1)}
       \cup {(tr * 8) + f : f \in (tf + 1)..6} \cup {(tr * 8) + f : f \in 1..(tf - 1)}

RECURSIVE mask_ray(_, _, _, _)
mask_ray(r, f, dr, df) ==
    IF r > 0 /\ r < 7 /\ f > 0 /\ f < 7
    THEN {(r * 8) + f} \cup mask_ray(r + dr, f + df, dr, df)
    ELSE {}

mask_bishop(sq) ==
    UNION {mask_ray(rank(sq) + d[1], file(sq) + d[2], d[1], d[2]) : d \in BishopDirs}

\* The table slot read by the lookup.  initialize() stores, for every blocker
\* subset v of the mask, attacks[v] = the slow walk on v at the slot v hashes
\* to (find_magic returns only a table in which every v reads its own attack
\* set: that is what MagicSpec below checks on table_lookup, the
\* multiply-shift index itself).
get_rook_attacks(sq, blockers) ==
    generate_rook_attacks_slow(sq, blockers \cap mask_rook(sq))

get_bishop_attacks(sq, blockers) ==
    generate_bishop_attacks_slow(sq, blockers \cap mask_bishop(sq))

\* ------------------------------------------------------------------------
\* magic.rs : Rng (xorshift32).  A u32 word is the set of its set bit
\* positions within 0..31, a u64 word within 0..63, as a Bitboard is.
\* ------------------------------------------------------------------------
Xor(x, y) == (x \ y) \cup (y \ x)
Shl32(x, n) == {b + n : b \in {c \in x : c + n < 32}}
Shr32(x, n) == {b - n : b \in {c \in x : c >= n}}

\* the set bits of a non-negative integer below 2^31
BitsOf(n) == {b \in 0..30 : (n \div (2 ^ b)) % 2 = 1}

\* Rng(1804289383) of find_magic
RngSeed == 1804289383

\* Rng::next : x ^= x << 13; x ^= x >> 17; x ^= x << 5
Rng_next3(x) == Xor(x, Shl32(x, 5))
Rng_next2(x) == Rng_next3(Xor(x, Shr32(x, 17)))
Rng_next(x) == Rng_next2(Xor(x, Shl32(x, 13)))

\* the k successive values returned by next(), the first being y
RECURSIVE Rng_draws(_, _)
Rng_draws(y, k) == IF k <= 1 THEN <<y>> ELSE <<y>> \o Rng_draws(Rng_next(y), k - 1)

Low16(x) == {b \in x : b < 16}

\* Rng::rand_u64 on the draws i .. i+3 : n1 | n2 << 16 | n3 << 32 | n4 << 48
rand_u64(draws, i) ==
    Low16(draws[i]) \cup {b + 16 : b \in Low16(draws[i + 1])}
    \cup {b + 32 : b \in Low16(draws[i + 2])} \cup {b + 48 : b \in Low16(draws[i + 3])}

\* Rng::rand_sparse : three rand_u64 and-ed; value is the word returned and
\* rng the state the generator is left in (the twelfth draw)
rand_sparse_of(draws) ==
    [value |-> rand_u64(draws, 1) \cap rand_u64(draws, 5) \cap rand_u64(draws, 9),
     rng |-> draws[12]]
rand_sparse(x) == rand_sparse_of(Rng_draws(Rng_next(x), 12))

\* ------------------------------------------------------------------------
\* u64::wrapping_mul and >> : a word is cut into five limbs of 13 bits, least
\* significant first (the fifth holds bits 52..63), and the product is
\* summed limb by limb with its carries.  find_magic and the lookups use only
\* bits 52..63 of a product, which is what wrapping_mul yields, as a number.
\* ------------------------------------------------------------------------
Bit(x, b) == IF b \in x THEN 1 ELSE 0
Limb(x, k) == Bit(x, 13 * k) + (2 * Bit(x, (13 * k) + 1)) + (4 * Bit(x, (13 * k) + 2))
              + (8 * Bit(x, (13 * k) + 3)) + (16 * Bit(x, (13 * k) + 4))
              + (32 * Bit(x, (13 * k) + 5)) + (64 * Bit(x, (13 * k) + 6))
              + (128 * Bit(x, (13 * k) + 7)) + (256 * Bit(x, (13 * k) + 8))
              + (512 * Bit(x, (13 * k) + 9)) + (1024 * Bit(x, (13 * k) + 10))
              + (2048 * Bit(x, (13 * k) + 11)) + (4096 * Bit(x, (13 * k) + 12))
Limbs(x) == <<Limb(x, 0), Limb(x, 1), Limb(x, 2), Limb(x, 3), Limb(x, 4)>>

\* bits 52..63 of the product of two words given by their limbs: the fifth
\* limb of the sum, the carries out of bit 63 dropped
mul_limbs(a, b) ==
    LET c1 == a[1] * b[1]
        c2 == (a[1] * b[2]) + (a[2] * b[1]) + (c1 \div 8192)
        c3 == (a[1] * b[3]) + (a[2] * b[2]) + (a[3] * b[1]) + (c2 \div 8192)
        c4 == (a[1] * b[4]) + (a[2] * b[3]) + (a[3] * b[2]) + (a[4] * b[1])
              + (c3 \div 8192)
        c5 == (a[1] * b[5]) + (a[2] * b[4]) + (a[3] * b[3]) + (a[4] * b[2])
              + (a[5] * b[1]) + (c4 \div 8192)
    IN c5 % 4096

\* x.wrapping_mul(y), y given by its limbs
wrapping_mul(x, ylimbs) == mul_limbs(Limbs(x), ylimbs)

\* (product & 0xFF00000000000000).count_ones()
top_byte_ones(product) == Cardinality(BitsOf(product \div 16))

\* (product >> shift) as usize, for the shifts 64 - bits with bits <= 12
shift_right(product, shift) == product \div (2 ^ (shift - 52))

\* ------------------------------------------------------------------------
\* magic.rs : ROOK_BITS, BISHOP_BITS, get_occupancy_variation, find_magic
\* ------------------------------------------------------------------------
ROOK_BITS ==
    <<12, 11, 11, 11, 11, 11, 11, 12, 11, 10, 10, 10, 10, 10, 10, 11,
      11, 10, 10, 10, 10, 10, 10, 11, 11, 10, 10, 10, 10, 10, 10, 11,
      11, 10, 10, 10, 10, 10, 10, 11, 11, 10, 10, 10, 10, 10, 10, 11,
      11, 10, 10, 10, 10, 10, 10, 11, 12, 11, 11, 11, 11, 11, 11, 12>>

BISHOP_BITS ==
    <<6, 5, 5, 5, 5, 5, 5, 6, 5, 5, 5, 5, 5, 5, 5, 5,
      5, 5, 7, 7, 7, 7, 5, 5, 5, 5, 7, 9, 9, 7, 5, 5,
      5, 5, 7, 9, 9, 7, 5, 5, 5, 5, 7, 7, 7, 7, 5, 5,
      5, 5, 5, 5, 5, 5, 5, 5, 6, 5, 5, 5, 5, 5, 5, 6>>

\* the lengths of ROOK_TABLE and BISHOP_TABLE
ROOK_TABLE_LEN == 102400
BISHOP_TABLE_LEN == 5248

bits_of(sq, is_rook) == IF is_rook THEN ROOK_BITS[sq + 1] ELSE BISHOP_BITS[sq + 1]
mask_of(sq, is_rook) == IF is_rook THEN mask_rook(sq) ELSE mask_bishop(sq)
slow_attacks(sq, is_rook, occupancy) ==
    IF is_rook THEN generate_rook_attacks_slow(sq, occupancy)
    ELSE generate_bishop_attacks_slow(sq, occupancy)

\* get_occupancy_variation on the squares popped from the mask, in order:
\* bit i of index selects the i-th popped square
occupancy_of(index, bits_in_mask, pops) ==
    {pops[i + 1] : i \in {j \in 0..(bits_in_mask - 1) : (index \div (2 ^ j)) % 2 = 1}}
get_occupancy_variation(index, bits_in_mask, mask) ==
    occupancy_of(index, bits_in_mask, PopSeq(mask))

\* The local table of find_magic, and the static tables, are kept as the
\* function from the slots that were written to what they hold; every other
\* slot holds Bitboard::EMPTY.
slot(tb, idx) == IF idx \in DOMAIN tb THEN tb[idx] ELSE EMPTY
store(tb, idx, att) == [j \in DOMAIN tb \cup {idx} |-> IF j = idx THEN att ELSE tb[j]]

\* the quick filter of find_magic: TRUE when the candidate is skipped
quick_filter(mask, mlimbs, n) == top_byte_ones(wrapping_mul(mask, mlimbs)) < 6 /\ n >= 6

\* "Try to fill the table".  st is the state of the loop: the fail flag, the
\* table, and filled, the number of occupancies placed so far.
\* fill_slot is the body of the loop on the slot idx and the attack set att.
\* fill_slot without the collision test: the first attack set stored in a
\* slot stays and the loop goes on
fill_slot_first_wins(st, idx, att) ==
    IF slot(st.table, idx) = EMPTY
    THEN [fail |-> FALSE, table |-> store(st.table, idx, att), filled |-> st.filled + 1]
    ELSE [fail |-> FALSE, table |-> st.table, filled |-> st.filled + 1]

fill_slot(st, idx, att) ==
    IF slot(st.table, idx) = EMPTY
    THEN [fail |-> FALSE, table |-> store(st.table, idx, att), filled |-> st.filled + 1]
    ELSE IF slot(st.table, idx) # att
         THEN [fail |-> TRUE, table |-> st.table, filled |-> st.filled]
         ELSE [fail |-> FALSE, table |-> st.table, filled |-> st.filled + 1]

fill_occupancy(sq, is_rook, mlimbs, shift, st, occupancy) ==
    fill_slot(st, shift_right(wrapping_mul(occupancy, mlimbs), shift),
              slow_attacks(sq, is_rook, occupancy))

\* the iterations lo .. hi - 1 of the loop, in order, stopping at the break
\* (the range is walked by halves to keep the evaluation shallow)
RECURSIVE fill_range(_, _, _, _, _, _, _, _)
fill_range(sq, is_rook, pops, mlimbs, shift, lo, hi, st) ==
    IF st.fail \/ lo >= hi THEN st
    ELSE IF hi = lo + 1
         THEN fill_occupancy(sq, is_rook, mlimbs, shift, st,
                             occupancy_of(lo, Len(pops), pops))
         ELSE fill_range(sq, is_rook, pops, mlimbs, shift, (lo + hi) \div 2, hi,
                         fill_range(sq, is_rook, pops, mlimbs, shift,
                                    lo, (lo + hi) \div 2, st))

\* the table reset and the fill loop over i in 0..num_occupancies
fill_table(sq, is_rook, pops, mlimbs, shift) ==
    fill_range(sq, is_rook, pops, mlimbs, shift, 0, 2 ^ Len(pops),
               [fail |-> FALSE, table |-> <<>>, filled |-> 0])

\* one pass of the loop of find_magic on a candidate that passed the filter
try_magic(sq, is_rook, mval) ==
    fill_table(sq, is_rook, PopSeq(mask_of(sq, is_rook)), Limbs(mval),
               64 - bits_of(sq, is_rook))

\* initialize: rook_offset / bishop_offset before square i, the sum of
\* 1 << bits over the squares before it
\* a faulty offset: the running offset advances by bits, not by 1 << bits
RECURSIVE table_offset_by_bits(_, _)
table_offset_by_bits(bits, i) ==
    IF i = 0 THEN 0 ELSE table_offset_by_bits(bits, i - 1) + bits[i]

RECURSIVE table_offset(_, _)
table_offset(bits, i) == IF i = 0 THEN 0 ELSE table_offset(bits, i - 1) + (2 ^ bits[i])
offset_of(sq, is_rook) == table_offset(IF is_rook THEN ROOK_BITS ELSE BISHOP_BITS, sq)

\* initialize: the MagicEntry stored for the square, and the copy of the
\* returned table into the static table at the entry's offset
MagicEntry(sq, is_rook, mval) ==
    [mask |-> mask_of(sq, is_rook), magic |-> mval,
     shift |-> 64 - bits_of(sq, is_rook), offset |-> offset_of(sq, is_rook)]
copy_table(tb, offset) == [j \in {i + offset : i \in DOMAIN tb} |-> tb[j - offset]]

\* get_rook_attacks / get_bishop_attacks on the entry and the static table:
\* idx = ((blockers & mask) * magic) >> shift; TABLE[offset + idx]
table_lookup(e, tb, blockers) ==
    slot(tb, e.offset + shift_right(wrapping_mul(blockers \cap e.mask, Limbs(e.magic)),
                                    e.shift))

\* ------------------------------------------------------------------------
\* board.rs : is_square_attacked
\* ------------------------------------------------------------------------
\* a faulty is_square_attacked: the pawn pattern is taken with the attacker's
\* own colour
is_square_attacked_own_pattern(b, sq, attacker) ==
    LET ps == pieces_of(b, attacker)
        pawn_hit == count(generate_pawn_attacks(sq, attacker) \cap ps[Pawn]) > 0
        knight_hit == count(generate_knight_attacks(sq) \cap ps[Knight]) > 0
        king_hit == count(generate_king_attacks(sq) \cap ps[King]) > 0
        rook_hit == count(get_rook_attacks(sq, b.all_occupancy)
                          \cap (ps[Rook] \cup ps[Queen])) > 0
        bishop_hit == count(get_bishop_attacks(sq, b.all_occupancy)
                            \cap (ps[Bishop] \cup ps[Queen])) > 0
    IN pawn_hit \/ knight_hit \/ king_hit \/ rook_hit \/ bishop_hit

is_square_attacked(b, sq, attacker) ==
    LET ps == pieces_of(b, attacker)
        pawn_hit == count(generate_pawn_attacks(sq, opposite(attacker)) \cap ps[Pawn]) > 0
        knight_hit == count(generate_knight_attacks(sq) \cap ps[Knight]) > 0
        king_hit == count(generate_king_attacks(sq) \cap ps[King]) > 0
        rook_hit == count(get_rook_attacks(sq, b.all_occupancy)
                          \cap (ps[Rook] \cup ps[Queen])) > 0
        bishop_hit == count(get_bishop_attacks(sq, b.all_occupancy)
                            \cap (ps[Bishop] \cup ps[Queen])) > 0
    IN pawn_hit \/ knight_hit \/ king_hit \/ rook_hit \/ bishop_hit

\* ------------------------------------------------------------------------
\* movegen.rs : MoveGenerator (a MoveList is the sequence of pushed moves)
\* ------------------------------------------------------------------------
RECURSIVE Flatten(_)
Flatten(ss) == IF ss = <<>> THEN <<>> ELSE Head(ss) \o Flatten(Tail(ss))

\* the moves pushed by one `while let Some(sq) = bb.pop_lsb()` loop whose
\* body pushes body(sq)
PopLoop(bb, body(_)) ==
    LET sqs == PopSeq(bb) IN Flatten([i \in 1..Len(sqs) |-> body(sqs[i])])

\* the rank mask of the double push (0x000000FF00000000, for both colours)
DoublePushMask == {s \in Squares : rank(s) = 4}

promotion_rank(white) == IF white THEN 7 ELSE 0

pawn_push_moves(from_sq, to_sq, white) ==
    IF rank(to_sq) = promotion_rank(white)
    THEN <<Move_new(from_sq, to_sq, N_PROMO), Move_new(from_sq, to_sq, B_PROMO),
           Move_new(from_sq, to_sq, R_PROMO), Move_new(from_sq, to_sq, Q_PROMO)>>
    ELSE <<Move_new(from_sq, to_sq, QUIET)>>

\* a faulty capture loop: no promotion on the last rank
pawn_capture_moves_plain(from_sq, to_sq, white) ==
    <<Move_new(from_sq, to_sq, CAPTURE)>>

pawn_capture_moves(from_sq, to_sq, white) ==
    IF rank(to_sq) = promotion_rank(white)
    THEN <<Move_new(from_sq, to_sq, N_PROMO_CAP), Move_new(from_sq, to_sq, B_PROMO_CAP),
           Move_new(from_sq, to_sq, R_PROMO_CAP), Move_new(from_sq, to_sq, Q_PROMO_CAP)>>
    ELSE <<Move_new(from_sq, to_sq, CAPTURE)>>

single_push_bb(board) ==
    LET white == board.side_to_move = White
        pawns == pieces_of(board, board.side_to_move)[Pawn]
        empty == Squares \ board.all_occupancy
    IN IF white THEN Shl(pawns, 8) \cap empty ELSE Shr(pawns, 8) \cap empty

double_push_bb(board) ==
    LET white == board.side_to_move = White
        empty == Squares \ board.all_occupancy
    IN IF white
       THEN (Shl(single_push_bb(board), 8) \cap empty) \cap DoublePushMask
       ELSE (Shr(single_push_bb(board), 8) \cap empty) \cap DoublePushMask

left_attack_bb(board) ==
    LET pawns == pieces_of(board, board.side_to_move)[Pawn]
    IN IF board.side_to_move = White
       THEN Shl(pawns, 7) \cap NOT_H_FILE
       ELSE Shr(pawns, 9) \cap NOT_H_FILE

right_attack_bb(board) ==
    LET pawns == pieces_of(board, board.side_to_move)[Pawn]
    IN IF board.side_to_move = White
       THEN Shl(pawns, 9) \cap NOT_A_FILE
       ELSE Shr(pawns, 7) \cap NOT_A_FILE

enemies_of(board) == IF board.side_to_move = White
                     THEN board.black_occupancy ELSE board.white_occupancy
friends_of(board) == IF board.side_to_move = White
                     THEN board.white_occupancy ELSE board.black_occupancy

en_passant_moves(board) ==
    LET white == board.side_to_move = White
        ep_sq == CHOOSE s \in board.en_passant_sq : TRUE
        left == IF left_attack_bb(board) \cap {ep_sq} # {}
                THEN <<Move_new(IF white THEN ep_sq - 7 ELSE ep_sq + 9, ep_sq, EP_CAPTURE)>>
                ELSE <<>>
        right == IF right_attack_bb(board) \cap {ep_sq} # {}
                 THEN <<Move_new(IF white THEN ep_sq - 9 ELSE ep_sq + 7, ep_sq, EP_CAPTURE)>>
                 ELSE <<>>
    IN IF board.en_passant_sq = {} THEN <<>> ELSE left \o right

generate_pawn_moves(board) ==
    LET white == board.side_to_move = White
        enemies == enemies_of(board)
        SinglePush(to_sq) ==
            pawn_push_moves(IF white THEN to_sq - 8 ELSE to_sq + 8, to_sq, white)
        DoublePush(to_sq) ==
            <<Move_new(IF white THEN to_sq - 16 ELSE to_sq + 16, to_sq, DOUBLE_PAWN_PUSH)>>
        LeftCapture(to_sq) ==
            pawn_capture_moves(IF white THEN to_sq - 7 ELSE to_sq + 9, to_sq, white)
        RightCapture(to_sq) ==
            pawn_capture_moves(IF white THEN to_sq - 9 ELSE to_sq + 7, to_sq, white)
    IN PopLoop(single_push_bb(board), SinglePush)
       \o PopLoop(double_push_bb(board), DoublePush)
       \o PopLoop(left_attack_bb(board) \cap enemies, LeftCapture)
       \o PopLoop(right_attack_bb(board) \cap enemies, RightCapture)
       \o en_passant_moves(board)

\* the inner loop shared by knights, the king and the sliders: one move per
\* target, a capture when the target holds an enemy
\* a faulty target loop: every target is flagged as a capture
target_moves_always_capture(board, from_sq, attacks) ==
    LET Target(to_sq) == <<Move_new(from_sq, to_sq, CAPTURE)>>
    IN PopLoop(attacks \ friends_of(board), Target)

target_moves(board, from_sq, attacks) ==
    LET Target(to_sq) ==
            <<Move_new(from_sq, to_sq,
                       IF get_bit(enemies_of(board), to_sq) THEN CAPTURE ELSE QUIET)>>
    IN PopLoop(attacks \ friends_of(board), Target)

generate_knight_moves(board) ==
    LET From(from_sq) == target_moves(board, from_sq, generate_knight_attacks(from_sq))
    IN PopLoop(pieces_of(board, board.side_to_move)[Knight], From)

\* a faulty generate_castling_moves: only the king's start and target squares
\* are probed for attacks, not the square it passes over
generate_castling_moves_no_transit(board, king_sq, white) ==
    LET color == IF white THEN White ELSE Black
        them == IF white THEN Black ELSE White
        king_start == IF white THEN E1 ELSE E8
        ks_target == IF white THEN G1 ELSE G8
        qs_target == IF white THEN C1 ELSE C8
        kingside ==
            IF can_castle_kingside(board.castling_rights, color)
               /\ ~get_bit(board.all_occupancy, king_start + 1)
               /\ ~get_bit(board.all_occupancy, ks_target)
               /\ ~is_square_attacked(board, king_start, them)
               /\ ~is_square_attacked(board, ks_target, them)
            THEN <<Move_new(king_start, ks_target, K_CASTLE)>> ELSE <<>>
        queenside ==
            IF can_castle_queenside(board.castling_rights, color)
               /\ ~get_bit(board.all_occupancy, king_start - 1)
               /\ ~get_bit(board.all_occupancy, qs_target)
               /\ ~get_bit(board.all_occupancy, qs_target - 1)
               /\ ~is_square_attacked(board, king_start, them)
               /\ ~is_square_attacked(board, qs_target, them)
            THEN <<Move_new(king_start, qs_target, Q_CASTLE)>> ELSE <<>>
    IN IF king_sq # king_start THEN <<>> ELSE kingside \o queenside

generate_castling_moves(board, king_sq, white) ==
    LET color == IF white THEN White ELSE Black
        them == IF white THEN Black ELSE White
        king_start == IF white THEN E1 ELSE E8
        ks_target == IF white THEN G1 ELSE G8
        qs_target == IF white THEN C1 ELSE C8
        f_sq == IF white THEN F1 ELSE F8
        g_sq == IF white THEN G1 ELSE G8
        d_sq == IF white THEN D1 ELSE D8
        c_sq == IF white THEN C1 ELSE C8
        b_sq == IF white THEN B1 ELSE B8
        rights == board.castling_rights
        kingside ==
            IF can_castle_kingside(rights, color)
               /\ ~get_bit(board.all_occupancy, f_sq)
               /\ ~get_bit(board.all_occupancy, g_sq)
               /\ ~is_square_attacked(board, king_start, them)
               /\ ~is_square_attacked(board, f_sq, them)
               /\ ~is_square_attacked(board, g_sq, them)
            THEN <<Move_new(king_start, ks_target, K_CASTLE)>> ELSE <<>>
        queenside ==
            IF can_castle_queenside(rights, color)
               /\ ~get_bit(board.all_occupancy, d_sq)
               /\ ~get_bit(board.all_occupancy, c_sq)
               /\ ~get_bit(board.all_occupancy, b_sq)
               /\ ~is_square_attacked(board, king_start, them)
               /\ ~is_square_attacked(board, d_sq, them)
               /\ ~is_square_attacked(board, c_sq, them)
            THEN <<Move_new(king_start, qs_target, Q_CASTLE)>> ELSE <<>>
    IN IF king_sq # king_start THEN <<>> ELSE kingside \o queenside

generate_king_moves(board) ==
    LET white == board.side_to_move = White
        popped == pop_lsb(pieces_of(board, board.side_to_move)[King])
        from_sq == CHOOSE s \in popped.sq : TRUE
    IN IF popped.sq = {} THEN <<>>
       ELSE target_moves(board, from_sq, generate_king_attacks(from_sq))
            \o generate_castling_moves(board, from_sq, white)

slider_moves(board, piece_type, is_rook, is_bishop) ==
    LET From(from_sq) ==
            target_moves(board, from_sq,
                (IF is_rook THEN get_rook_attacks(from_sq, board.all_occupancy) ELSE {})
                \cup (IF is_bishop THEN get_bishop_attacks(from_sq, board.all_occupancy)
                      ELSE {}))
    IN PopLoop(pieces_of(board, board.side_to_move)[piece_type], From)

generate_slider_moves(board) ==
    slider_moves(board, Rook, TRUE, FALSE)
    \o slider_moves(board, Bishop, FALSE, TRUE)
    \o slider_moves(board, Queen, TRUE, TRUE)

generate_all(board) ==
    generate_pawn_moves(board) \o generate_knight_moves(board)
    \o generate_king_moves(board) \o generate_slider_moves(board)

\* ------------------------------------------------------------------------
\* perft.rs : perft
\* ------------------------------------------------------------------------
\* the legality filter with the mover as the attacker
passes_filter_own_side(board, next_board) ==
    LET king == get_king_square(next_board, board.side_to_move)
    IN king # {} /\ ~is_square_attacked(next_board, CHOOSE s \in king : TRUE,
                                        board.side_to_move)

\* the legality filter of perft: the mover's king is not attacked in next
\* (get_king_square panics when the mover has no king: perft_panics below;
\* the sum perft computes takes such a move as not counted)
passes_filter(board, next_board) ==
    LET king == get_king_square(next_board, board.side_to_move)
    IN king # {} /\ ~is_square_attacked(next_board, CHOOSE s \in king : TRUE,
                                        next_board.side_to_move)

\* the body of `for m in moves.iter()` for one move, given its successor
perft_child(board, next_board, depth, rec(_, _)) ==
    IF passes_filter(board, next_board) THEN rec(next_board, depth - 1) ELSE 0

RECURSIVE perft(_, _)
RECURSIVE perft_loop(_, _, _, _)
perft_loop(board, moves, i, depth) ==
    IF i > Len(moves) THEN 0
    ELSE perft_child(board, make_move(board, moves[i]), depth, perft)
         + perft_loop(board, moves, i + 1, depth)

perft(board, depth) ==
    IF depth = 0 THEN 1 ELSE perft_loop(board, generate_all(board), 1, depth)

\* perft panics with "Board has no King!": the loop reaches a move whose
\* mover has no king, at this node or in a subtree it descends into
RECURSIVE perft_panics(_, _)
perft_panics_at(board, next_board, depth) ==
    \/ get_king_square(next_board, board.side_to_move) = {}
    \/ passes_filter(board, next_board) /\ perft_panics(next_board, depth - 1)

perft_panics_among(board, moves, depth) ==
    \E i \in 1..Len(moves) : perft_panics_at(board, make_move(board, moves[i]), depth)

perft_panics(board, depth) ==
    depth > 0 /\ perft_panics_among(board, generate_all(board), depth)

\* perft_driver: the loop over the root moves.  The driver has no depth == 0
\* test: on the first move that passes the filter it evaluates depth - 1 on a
\* u8, which panics when overflow checks are on and wraps to 255 otherwise.
\* total is the value of total_nodes when the loop completes
driver_passing(board, moves) ==
    {i \in 1..Len(moves) : passes_filter(board, make_move(board, moves[i]))}

RECURSIVE driver_total(_, _, _, _)
driver_total(board, moves, i, depth) ==
    IF i > Len(moves) THEN 0
    ELSE perft_child(board, make_move(board, moves[i]), depth, perft)
         + driver_total(board, moves, i + 1, depth)

perft_driver(board, depth, overflow_checks) ==
    LET moves == generate_all(board)
        underflows == depth = 0 /\ driver_passing(board, moves) # {}
        child_depth == (depth + 255) % 256
    IN IF perft_panics_among(board, moves, IF underflows THEN 0 ELSE depth)
          \/ (underflows /\ overflow_checks)
       THEN [outcome |-> "panic", child_depth |-> child_depth, total |-> {}]
       ELSE IF underflows
       THEN [outcome |-> "wrapped", child_depth |-> child_depth, total |-> {}]
       ELSE [outcome |-> "returned", child_depth |-> child_depth,
             total |-> {driver_total(board, moves, 1, depth)}]

\* the moves of a MoveList as a set
MoveSet(moves) == {moves[i] : i \in 1..Len(moves)}

\* ------------------------------------------------------------------------
\* board.rs : from_fen.  A FEN is given as the sequence of its whitespace-
\* separated fields, each field a sequence of one-character strings.
\* ------------------------------------------------------------------------
Digits == <<"0", "1", "2", "3", "4", "5", "6", "7", "8", "9">>
LowerLetters == <<"a", "b", "c", "d", "e", "f", "g", "h", "i", "j", "k", "l", "m",
                  "n", "o", "p", "q", "r", "s", "t", "u", "v", "w", "x", "y", "z">>
UpperLetters == <<"A", "B", "C", "D", "E", "F", "G", "H", "I", "J", "K", "L", "M",
                  "N", "O", "P", "Q", "R", "S", "T", "U", "V", "W", "X", "Y", "Z">>

IndexOf(seq, c) == CHOOSE i \in 1..Len(seq) : seq[i] = c
InSeq(seq, c) == \E i \in 1..Len(seq) : seq[i] = c

is_ascii_digit(c) == InSeq(Digits, c)
to_digit(c) == IndexOf(Digits, c) - 1
is_uppercase(c) == InSeq(UpperLetters, c)
to_ascii_lowercase(c) == IF is_uppercase(c) THEN LowerLetters[IndexOf(UpperLetters, c)] ELSE c

\* the byte of a character (`c as u8`)
Ascii(c) == IF InSeq(LowerLetters, c) THEN 96 + IndexOf(LowerLetters, c)
            ELSE IF InSeq(UpperLetters, c) THEN 64 + IndexOf(UpperLetters, c)
            ELSE IF InSeq(Digits, c) THEN 47 + IndexOf(Digits, c)
            ELSE IF c = "/" THEN 47
            ELSE 45

\* str::split('/')
RECURSIVE split_rows(_, _)
split_rows(chars, cur) ==
    IF chars = <<>> THEN <<cur>>
    ELSE IF Head(chars) = "/" THEN <<cur>> \o split_rows(Tail(chars), <<>>)
    ELSE split_rows(Tail(chars), Append(cur, Head(chars)))

PieceLetters == <<"p", "n", "b", "r", "q", "k">>

\* the loop over the characters of one row.  acc = [board, file, err, oob]:
\* err is the Err message (a set, empty while Ok), oob records that
\* Square::new was handed an index of 64 or more
RECURSIVE place_row(_, _, _)
place_row(acc, rnk, chars) ==
    IF chars = <<>> \/ acc.err # {} THEN acc
    ELSE LET c == Head(chars)
             lower == to_ascii_lowercase(c)
             color == IF is_uppercase(c) THEN White ELSE Black
             square == ((rnk * 8) + acc.file) % 256
         IN IF is_ascii_digit(c)
            THEN place_row([acc EXCEPT !.file = (@ + to_digit(c)) % 256], rnk, Tail(chars))
            ELSE IF ~InSeq(PieceLetters, lower)
            THEN [acc EXCEPT !.err = {"Unknown piece"}]
            ELSE place_row([acc EXCEPT
                               !.board = add_piece(@, IndexOf(PieceLetters, lower) - 1,
                                                   color, square),
                               !.oob = @ \/ square > 63,
                               !.file = (@ + 1) % 256],
                           rnk, Tail(chars))

RECURSIVE place_rows(_, _, _)
place_rows(acc, rows, rank_idx) ==
    IF rank_idx >= Len(rows) \/ acc.err # {} THEN acc
    ELSE place_rows(place_row([acc EXCEPT !.file = 0], 7 - rank_idx, rows[rank_idx + 1]),
                    rows, rank_idx + 1)

castling_bit(c) == IF c = "K" THEN {WHITE_KINGSIDE}
                   ELSE IF c = "Q" THEN {WHITE_QUEENSIDE}
                   ELSE IF c = "k" THEN {BLACK_KINGSIDE}
                   ELSE IF c = "q" THEN {BLACK_QUEENSIDE}
                   ELSE {}

\* u8::from_str on the halfmove field, unwrap_or(0)
RECURSIVE parse_number(_, _)
parse_number(chars, n) ==
    IF chars = <<>> THEN n
    ELSE parse_number(Tail(chars), (n * 10) + to_digit(Head(chars)))

parse_u8(chars) ==
    IF chars = <<>> \/ Len(chars) > 3 \/ \E i \in 1..Len(chars) : ~is_ascii_digit(chars[i])
    THEN 0
    ELSE IF parse_number(chars, 0) > 255 THEN 0 ELSE parse_number(chars, 0)

FenErr(msg) == [ok |-> FALSE, err |-> msg, oob |-> FALSE, board |-> Board_new]

from_fen(parts) ==
    LET rows == split_rows(parts[1], <<>>)
        placed == place_rows([board |-> Board_new, file |-> 0, err |-> {}, oob |-> FALSE],
                             rows, 0)
        side == IF parts[2] = <<"w">> THEN White ELSE Black
        has_castling == Len(parts) > 2 /\ parts[3] # <<"-">>
        bad_castling == has_castling
                        /\ \E i \in 1..Len(parts[3]) : castling_bit(parts[3][i]) = {}
        rights == IF has_castling
                  THEN UNION {castling_bit(parts[3][i]) : i \in 1..Len(parts[3])}
                  ELSE {}
        has_ep == Len(parts) > 3 /\ parts[4] # <<"-">>
        ep_file == (Ascii(parts[4][1]) - 97) % 256
        ep_rank == (Ascii(parts[4][2]) - 49) % 256
        halfmove == IF Len(parts) > 4 THEN parse_u8(parts[5]) ELSE 0
    IN IF Len(parts) < 2 THEN FenErr("Invalid FEN: not enough fields")
       ELSE IF Len(rows) # 8 THEN FenErr("Invalid FEN: expected 8 rows")
       ELSE IF placed.err # {} THEN FenErr("Unknown piece")
       ELSE IF bad_castling THEN FenErr("Invalid castling char")
       ELSE IF has_ep /\ Len(parts[4]) # 2 THEN FenErr("Invalid en passant")
       ELSE IF has_ep /\ (ep_file > 7 \/ ep_rank > 7) THEN FenErr("Invalid en passant square")
       ELSE [ok |-> TRUE, err |-> "", oob |-> placed.oob,
             board |-> update_occupancies(
                 [placed.board EXCEPT
                     !.side_to_move = side,
                     !.castling_rights = rights,
                     !.en_passant_sq = IF has_ep THEN {(ep_rank * 8) + ep_file} ELSE {},
                     !.halfmove_clock = halfmove])]

\* file_char as u8 - b'a' or rank_char as u8 - b'1' goes below zero: the
\* subtraction panics in a build with overflow checks and wraps in one
\* without (from_fen above takes the wrapped value)
from_fen_overflows(parts) ==
    /\ Len(parts) >= 2
    /\ from_fen(<<parts[1], parts[2], <<"-">>, <<"-">>>>).ok
    /\ ~(Len(parts) > 2 /\ parts[3] # <<"-">>
         /\ \E i \in 1..Len(parts[3]) : castling_bit(parts[3][i]) = {})
    /\ Len(parts) > 3 /\ parts[4] # <<"-">> /\ Len(parts[4]) = 2
    /\ (Ascii(parts[4][1]) < 97 \/ Ascii(parts[4][2]) < 49)

\* ------------------------------------------------------------------------
\* The positions the model loads
\* ------------------------------------------------------------------------
\* main.rs: the standard starting position
\* rnbqkbnr/pppppppp/8/8/8/8/PPPPPPPP/RNBQKBNR w KQkq - 0 1
StartFen ==
    <<<<"r", "n", "b", "q", "k", "b", "n", "r", "/", "p", "p", "p", "p", "p", "p", "p", "p", "/", "8", "/", "8", "/", "8", "/", "8", "/", "P", "P", "P", "P", "P", "P", "P", "P", "/", "R", "N", "B", "Q", "K", "B", "N", "R">>,
      <<"w">>,
      <<"K", "Q", "k", "q">>,
      <<"-">>,
      <<"0">>,
      <<"1">>>>

\* black pawns on their starting rank next to a white pawn on the fifth rank
\* 4k3/3p1p2/8/4P3/8/8/8/4K3 b - - 0 1
BlackDoubleFen ==
    <<<<"4", "k", "3", "/", "3", "p", "1", "p", "2", "/", "8", "/", "4", "P", "3", "/", "8", "/", "8", "/", "8", "/", "4", "K", "3">>,
      <<"b">>,
      <<"-">>,
      <<"-">>,
      <<"0">>,
      <<"1">>>>

\* white to move with an en-passant square left by d7d5
\* 4k3/8/8/3pP3/8/8/8/4K3 w - d6 0 1
WhiteEpFen ==
    <<<<"4", "k", "3", "/", "8", "/", "8", "/", "3", "p", "P", "3", "/", "8", "/", "8", "/", "8", "/", "4", "K", "3">>,
      <<"w">>,
      <<"-">>,
      <<"d", "6">>,
      <<"0">>,
      <<"1">>>>

\* black to move with an en-passant square left by e2e4
\* 4k3/8/8/8/3pP3/8/8/4K3 b - e3 0 1
BlackEpFen ==
    <<<<"4", "k", "3", "/", "8", "/", "8", "/", "8", "/", "3", "p", "P", "3", "/", "8", "/", "8", "/", "4", "K", "3">>,
      <<"b">>,
      <<"-">>,
      <<"e", "3">>,
      <<"0">>,
      <<"1">>>>

\* a white pawn on its third rank with two empty squares ahead
\* 4k3/8/8/3p4/8/4P3/8/4K3 w - - 0 1
ThirdRankFen ==
    <<<<"4", "k", "3", "/", "8", "/", "8", "/", "3", "p", "4", "/", "8", "/", "4", "P", "3", "/", "8", "/", "4", "K", "3">>,
      <<"w">>,
      <<"-">>,
      <<"-">>,
      <<"0">>,
      <<"1">>>>

\* a white pawn about to promote, by push or by capturing the a8 rook
\* r3k3/1P6/8/8/8/8/8/4K3 w q - 0 1
WhitePromoFen ==
    <<<<"r", "3", "k", "3", "/", "1", "P", "6", "/", "8", "/", "8", "/", "8", "/", "8", "/", "8", "/", "4", "K", "3">>,
      <<"w">>,
      <<"q">>,
      <<"-">>,
      <<"0">>,
      <<"1">>>>

\* a black pawn about to promote, by push or by capturing the h1 rook
\* 4k3/8/8/8/8/8/6p1/4K2R b K - 0 1
BlackPromoFen ==
    <<<<"4", "k", "3", "/", "8", "/", "8", "/", "8", "/", "8", "/", "8", "/", "6", "p", "1", "/", "4", "K", "2", "R">>,
      <<"b">>,
      <<"K">>,
      <<"-">>,
      <<"0">>,
      <<"1">>>>

\* white may castle queenside while b1 is attacked
\* 1r2k3/8/8/8/8/8/8/R3K3 w Q - 0 1
WhiteQueensideFen ==
    <<<<"1", "r", "2", "k", "3", "/", "8", "/", "8", "/", "8", "/", "8", "/", "8", "/", "8", "/", "R", "3", "K", "3">>,
      <<"w">>,
      <<"Q">>,
      <<"-">>,
      <<"0">>,
      <<"1">>>>

\* white may castle kingside
\* 4k3/8/8/8/8/8/8/4K2R w K - 0 1
WhiteKingsideFen ==
    <<<<"4", "k", "3", "/", "8", "/", "8", "/", "8", "/", "8", "/", "8", "/", "8", "/", "4", "K", "2", "R">>,
      <<"w">>,
      <<"K">>,
      <<"-">>,
      <<"0">>,
      <<"1">>>>

\* black may castle on both sides
\* r3k2r/8/8/8/8/8/8/4K3 b kq - 0 1
BlackCastlesFen ==
    <<<<"r", "3", "k", "2", "r", "/", "8", "/", "8", "/", "8", "/", "8", "/", "8", "/", "8", "/", "4", "K", "3">>,
      <<"b">>,
      <<"k", "q">>,
      <<"-">>,
      <<"0">>,
      <<"1">>>>

\* both sides hold both castling rights: "r3k2r/8/8/8/8/8/8/R3K2R w KQkq - 0 1"
BothCastleFen ==
    <<<<"r", "3", "k", "2", "r", "/", "8", "/", "8", "/", "8", "/", "8", "/", "8", "/", "8", "/", "R", "3", "K", "2", "R">>,
      <<"w">>,
      <<"K", "Q", "k", "q">>,
      <<"-">>,
      <<"0">>,
      <<"1">>>>

\* white is in check on e1 and keeps its queenside right
\* 4k3/8/8/8/8/8/P7/R3K2r w Q - 0 1
CheckedKingFen ==
    <<<<"4", "k", "3", "/", "8", "/", "8", "/", "8", "/", "8", "/", "8", "/", "P", "7", "/", "R", "3", "K", "2", "r">>,
      <<"w">>,
      <<"Q">>,
      <<"-">>,
      <<"0">>,
      <<"1">>>>

\* white to move with a bishop pinned on the a-file and an en-passant capture
\* that would open the fifth rank onto its king
\* 6k1/8/8/K2pP2r/8/B7/8/r7 w - d6 0 1
PinnedFen ==
    <<<<"6", "k", "1", "/", "8", "/", "8", "/", "K", "2", "p", "P", "2", "r", "/", "8", "/", "B", "7", "/", "8", "/", "r", "7">>,
      <<"w">>,
      <<"-">>,
      <<"d", "6">>,
      <<"0">>,
      <<"1">>>>

\* inputs of from_fen that are not well-formed FENs
MalformedFens ==
    {
     \* no field at all: ""
     <<>>,
     \* the placement alone: "8/8/8/8/8/8/8/8"
     <<<<"8", "/", "8", "/", "8", "/", "8", "/", "8", "/", "8", "/", "8", "/", "8">>>>,
     \* no castling and no en-passant field: "4k3/8/8/8/8/8/8/4K3 w"
     <<<<"4", "k", "3", "/", "8", "/", "8", "/", "8", "/", "8", "/", "8", "/", "8", "/", "4", "K", "3">>, <<"w">>>>,
     \* no en-passant field: "4k3/8/8/8/8/8/8/4K3 w -"
     <<<<"4", "k", "3", "/", "8", "/", "8", "/", "8", "/", "8", "/", "8", "/", "8", "/", "4", "K", "3">>, <<"w">>, <<"-">>>>,
     \* seven ranks: "4k3/8/8/8/8/8/4K3 w - - 0 1"
     <<<<"4", "k", "3", "/", "8", "/", "8", "/", "8", "/", "8", "/", "8", "/", "4", "K", "3">>, <<"w">>, <<"-">>, <<"-">>, <<"0">>, <<"1">>>>,
     \* nine ranks: "4k3/8/8/8/8/8/8/8/4K3 w - - 0 1"
     <<<<"4", "k", "3", "/", "8", "/", "8", "/", "8", "/", "8", "/", "8", "/", "8", "/", "8", "/", "4", "K", "3">>, <<"w">>, <<"-">>, <<"-">>, <<"0">>, <<"1">>>>,
     \* an unknown piece letter: "4k3/8/8/3x4/8/8/8/4K3 w - - 0 1"
     <<<<"4", "k", "3", "/", "8", "/", "8", "/", "3", "x", "4", "/", "8", "/", "8", "/", "8", "/", "4", "K", "3">>, <<"w">>, <<"-">>, <<"-">>, <<"0">>, <<"1">>>>,
     \* an unknown upper-case piece letter: "4k3/8/8/8/8/8/8/3ZK3 w - - 0 1"
     <<<<"4", "k", "3", "/", "8", "/", "8", "/", "8", "/", "8", "/", "8", "/", "8", "/", "3", "Z", "K", "3">>, <<"w">>, <<"-">>, <<"-">>, <<"0">>, <<"1">>>>,
     \* a castling letter outside KQkq: "4k3/8/8/8/8/8/8/4K2R w Kx - 0 1"
     <<<<"4", "k", "3", "/", "8", "/", "8", "/", "8", "/", "8", "/", "8", "/", "8", "/", "4", "K", "2", "R">>, <<"w">>, <<"K", "x">>, <<"-">>, <<"0">>, <<"1">>>>,
     \* a dash inside the castling field: "4k3/8/8/8/8/8/8/4K2R w K- - 0 1"
     <<<<"4", "k", "3", "/", "8", "/", "8", "/", "8", "/", "8", "/", "8", "/", "8", "/", "4", "K", "2", "R">>, <<"w">>, <<"K", "-">>, <<"-">>, <<"0">>, <<"1">>>>,
     \* an en-passant field of one character: "4k3/8/8/8/8/8/8/4K3 w - e 0 1"
     <<<<"4", "k", "3", "/", "8", "/", "8", "/", "8", "/", "8", "/", "8", "/", "8", "/", "4", "K", "3">>, <<"w">>, <<"-">>, <<"e">>, <<"0">>, <<"1">>>>,
     \* an en-passant field of three characters: "4k3/8/8/8/8/8/8/4K3 w - e33 0 1"
     <<<<"4", "k", "3", "/", "8", "/", "8", "/", "8", "/", "8", "/", "8", "/", "8", "/", "4", "K", "3">>, <<"w">>, <<"-">>, <<"e", "3", "3">>, <<"0">>, <<"1">>>>,
     \* an en-passant file beyond h: "4k3/8/8/8/8/8/8/4K3 w - i3 0 1"
     <<<<"4", "k", "3", "/", "8", "/", "8", "/", "8", "/", "8", "/", "8", "/", "8", "/", "4", "K", "3">>, <<"w">>, <<"-">>, <<"i", "3">>, <<"0">>, <<"1">>>>,
     \* an en-passant rank beyond 8: "4k3/8/8/8/8/8/8/4K3 w - e9 0 1"
     <<<<"4", "k", "3", "/", "8", "/", "8", "/", "8", "/", "8", "/", "8", "/", "8", "/", "4", "K", "3">>, <<"w">>, <<"-">>, <<"e", "9">>, <<"0">>, <<"1">>>>,
     \* an en-passant rank 0: "4k3/8/8/8/8/8/8/4K3 w - e0 0 1"
     <<<<"4", "k", "3", "/", "8", "/", "8", "/", "8", "/", "8", "/", "8", "/", "8", "/", "4", "K", "3">>, <<"w">>, <<"-">>, <<"e", "0">>, <<"0">>, <<"1">>>>,
     \* an upper-case en-passant file: "4k3/8/8/8/8/8/8/4K3 w - E3 0 1"
     <<<<"4", "k", "3", "/", "8", "/", "8", "/", "8", "/", "8", "/", "8", "/", "8", "/", "4", "K", "3">>, <<"w">>, <<"-">>, <<"E", "3">>, <<"0">>, <<"1">>>>
    }

\* placement fields of eight rows of digits and piece letters in which a row
\* describes more than eight files
OverlongFens ==
    {
     \* a row of nine pawns: the ninth lands on a8: "4k3/ppppppppp/8/8/8/8/8/4K3 w - - 0 1"
     <<<<"4", "k", "3", "/", "p", "p", "p", "p", "p", "p", "p", "p", "p", "/", "8", "/", "8", "/", "8", "/", "8", "/", "8", "/", "4", "K", "3">>, <<"w">>, <<"-">>, <<"-">>, <<"0">>, <<"1">>>>,
     \* a pawn after a run of eight: it lands on a8: "4k3/8p/8/8/8/8/8/4K3 w - - 0 1"
     <<<<"4", "k", "3", "/", "8", "p", "/", "8", "/", "8", "/", "8", "/", "8", "/", "8", "/", "4", "K", "3">>, <<"w">>, <<"-">>, <<"-">>, <<"0">>, <<"1">>>>,
     \* a pawn after eight files of the last row: it lands on a2: "4k3/8/8/8/8/8/8/4K3P w - - 0 1"
     <<<<"4", "k", "3", "/", "8", "/", "8", "/", "8", "/", "8", "/", "8", "/", "8", "/", "4", "K", "3", "P">>, <<"w">>, <<"-">>, <<"-">>, <<"0">>, <<"1">>>>,
     \* nine pieces in the first row: the ninth has square index 64: "rnbqkbnrr/8/8/8/8/8/8/4K3 w - - 0 1"
     <<<<"r", "n", "b", "q", "k", "b", "n", "r", "r", "/", "8", "/", "8", "/", "8", "/", "8", "/", "8", "/", "8", "/", "4", "K", "3">>, <<"w">>, <<"-">>, <<"-">>, <<"0">>, <<"1">>>>,
     \* a run of nine and no piece after it: "4k3/9/8/8/8/8/8/4K3 w - - 0 1"
     <<<<"4", "k", "3", "/", "9", "/", "8", "/", "8", "/", "8", "/", "8", "/", "8", "/", "4", "K", "3">>, <<"w">>, <<"-">>, <<"-">>, <<"0">>, <<"1">>>>
    }

Fens == {StartFen,
         PinnedFen,
         BlackDoubleFen,
         WhiteEpFen,
         BlackEpFen,
         ThirdRankFen,
         WhitePromoFen,
         BlackPromoFen,
         WhiteQueensideFen,
         WhiteKingsideFen,
         BlackCastlesFen,
         BothCastleFen,
         CheckedKingFen}

\* ------------------------------------------------------------------------
\* Text output: a string is the sequence of its characters.
\* bitboard.rs : #[derive(Debug)] on Square writes the name of the variant,
\* the file letter in upper case and the rank digit (A1 .. H8).
\* types.rs : impl fmt::Debug for Move
\* ------------------------------------------------------------------------
Square_fmt(sq) == <<UpperLetters[file(sq) + 1], Digits[rank(sq) + 2]>>

\* the match on the flag: the promotion letter, or nothing
promo_letter(flag) ==
    IF flag \in {N_PROMO, N_PROMO_CAP} THEN <<"n">>
    ELSE IF flag \in {B_PROMO, B_PROMO_CAP} THEN <<"b">>
    ELSE IF flag \in {R_PROMO, R_PROMO_CAP} THEN <<"r">>
    ELSE IF flag \in {Q_PROMO, Q_PROMO_CAP} THEN <<"q">>
    ELSE <<>>

Move_fmt(m) == Square_fmt(Move_from(m)) \o Square_fmt(Move_to(m))
               \o promo_letter(Move_flag(m))

\* ------------------------------------------------------------------------
\* The game specification: a position is loaded from a FEN, then any
\* sequence of generated moves is made (perft's loop without its filter).
\* ------------------------------------------------------------------------
VARIABLES board, parent, last_move, ply, status

\* The state of magic::initialize for one square: the arguments of find_magic,
\* its locals (rng, the candidate magic, the table, the outcome of the last
\* pass of its loop and the number of passes made), the MagicEntry and the
\* slice of the static table stored for the square, and a lookup's argument
\* and result.
VARIABLES find_sq, find_is_rook, rng, tries, magic, table, filled, last_pass,
          entry, static_table, lookup_blockers, lookup_result

\* A call of one of the library's functions on its own: the function called,
\* its arguments, and what it returned (for a &mut self method, the value it
\* left behind as well).
VARIABLES called, call_args, call_result

game_vars == <<board, parent, last_move, ply, status>>
magic_vars == <<find_sq, find_is_rook, rng, tries, magic, table, filled, last_pass,
                entry, static_table, lookup_blockers, lookup_result>>
call_vars == <<called, call_args, call_result>>
vars == <<game_vars, magic_vars, call_vars>>

\* the static MagicEntry before initialize: all fields zero
ZeroEntry == [mask |-> {}, magic |-> {}, shift |-> 0, offset |-> 0]

\* magic::initialize has not been entered
MagicIdle == /\ find_sq = 0
             /\ find_is_rook = TRUE
             /\ rng = {}
             /\ tries = 0
             /\ magic = {}
             /\ table = <<>>
             /\ filled = 0
             /\ last_pass = "idle"
             /\ entry = ZeroEntry
             /\ static_table = <<>>
             /\ lookup_blockers = {}
             /\ lookup_result = {}

GameNew == /\ board = Board_new
           /\ parent = Board_new
           /\ last_move = {}
           /\ ply = 0
           /\ status = "new"

\* no function has been called
NoCall == /\ called = "none"
          /\ call_args = <<>>
          /\ call_result = <<>>

Init == GameNew /\ MagicIdle /\ NoCall

\* Board::from_fen(fen)
LoadFen == /\ status = "new"
           /\ \E fen \in Fens :
                LET r == from_fen(fen)
                IN /\ status' = (IF r.ok THEN "loaded" ELSE "fen_error")
                   /\ board' = r.board
           /\ UNCHANGED <<parent, last_move, ply>>
           /\ UNCHANGED <<magic_vars, call_vars>>

\* one iteration of the move loop: board.make_move(*m) for m in generate_all
MakeMove == /\ status = "loaded"
            /\ ply < MaxPly
            /\ \E m \in MoveSet(generate_all(board)) :
                    IF make_move_panics(board, m) # {}
                    THEN /\ status' = "panicked"
                         /\ last_move' = {m}
                         /\ UNCHANGED <<board, parent, ply>>
                    ELSE /\ board' = make_move(board, m)
                         /\ parent' = board
                         /\ last_move' = {m}
                         /\ ply' = ply + 1
                         /\ UNCHANGED status
            /\ UNCHANGED <<magic_vars, call_vars>>

Next == LoadFen \/ MakeMove

Spec == Init /\ [][Next]_vars

\* ------------------------------------------------------------------------
\* The magic specification: magic::initialize on one square and one piece
\* kind.  find_magic is entered with a fresh Rng(1804289383); every pass of
\* its loop draws a candidate, and either skips it (the quick filter),
\* fails to fill the table, or fills it and returns; initialize then
\* stores the entry and the table, and the lookup is called on a blocker
\* subset of the mask.  The loop is followed for MaxTries passes.
\* ------------------------------------------------------------------------
MagicInit == /\ GameNew
             /\ NoCall
             /\ find_sq \in Squares
             /\ find_is_rook \in BOOLEAN
             /\ rng = BitsOf(RngSeed)
             /\ tries = 0
             /\ magic = {}
             /\ table = <<>>
             /\ filled = 0
             /\ last_pass = "entered"
             /\ entry = ZeroEntry
             /\ static_table = <<>>
             /\ lookup_blockers = {}
             /\ lookup_result = {}

InLoop == last_pass \in {"entered", "continue", "fail"} /\ tries < MaxTries

find_mask == mask_of(find_sq, find_is_rook)

\* TRUE when the candidate c.value is skipped by the quick filter
Skipped(c) == quick_filter(find_mask, Limbs(c.value), count(find_mask))

\* a pass that ends at `continue`: the table is not touched
FilterContinueOn(c) ==
    /\ Skipped(c)
    /\ rng' = c.rng
    /\ magic' = c.value
    /\ tries' = tries + 1
    /\ last_pass' = "continue"
    /\ UNCHANGED <<find_sq, find_is_rook, table, filled, entry, static_table,
                   lookup_blockers, lookup_result>>

FilterContinue == /\ InLoop
                  /\ FilterContinueOn(rand_sparse(rng))
                  /\ UNCHANGED <<game_vars, call_vars>>

\* a pass that reaches the fill loop: the loop either breaks with fail = true
\* and the next pass follows, or completes and find_magic returns
\* (magic, table)
FillTableOn(c, st) ==
    /\ rng' = c.rng
    /\ magic' = c.value
    /\ table' = st.table
    /\ filled' = st.filled
    /\ tries' = tries + 1
    /\ last_pass' = (IF st.fail THEN "fail" ELSE "returned")
    /\ UNCHANGED <<find_sq, find_is_rook, entry, static_table,
                   lookup_blockers, lookup_result>>

FillTableTry(c) == ~Skipped(c) /\ FillTableOn(c, try_magic(find_sq, find_is_rook, c.value))

FillTable == /\ InLoop
             /\ FillTableTry(rand_sparse(rng))
             /\ UNCHANGED <<game_vars, call_vars>>

\* initialize, on the pair returned by find_magic: the MagicEntry is stored
\* and the table copied into the static table at the entry's offset
Install == /\ last_pass = "returned"
           /\ entry' = MagicEntry(find_sq, find_is_rook, magic)
           /\ static_table' = copy_table(table, offset_of(find_sq, find_is_rook))
           /\ last_pass' = "initialized"
           /\ UNCHANGED <<find_sq, find_is_rook, rng, tries, magic, table, filled,
                          lookup_blockers, lookup_result>>
           /\ UNCHANGED <<game_vars, call_vars>>

\* get_rook_attacks(sq, v) / get_bishop_attacks(sq, v) after initialize
Lookup == /\ last_pass = "initialized"
          /\ \E v \in SUBSET entry.mask :
                /\ lookup_blockers' = v
                /\ lookup_result' = table_lookup(entry, static_table, v)
          /\ last_pass' = "lookup"
          /\ UNCHANGED <<find_sq, find_is_rook, rng, tries, magic, table, filled,
                         entry, static_table>>
          /\ UNCHANGED <<game_vars, call_vars>>

MagicNext == FilterContinue \/ FillTable \/ Install \/ Lookup

MagicSpec == MagicInit /\ [][MagicNext]_vars

\* ------------------------------------------------------------------------
\* The call specification: one call of a library function on arguments
\* drawn from its domain.
\* ------------------------------------------------------------------------
\* what the accessors of Move return on m
MoveFields(m) == [move |-> m, from |-> Move_from(m), to |-> Move_to(m),
                  flag |-> Move_flag(m), is_capture |-> is_capture(m),
                  is_promotion |-> is_promotion(m)]

\* Move::new(from, to, flag) and the accessors on the move it returns
CallMoveNew == /\ called = "none"
               /\ \E from \in Squares, to \in Squares, flag \in 0..15 :
                     /\ call_args' = <<from, to, flag>>
                     /\ call_result' = MoveFields(Move_new(from, to, flag))
               /\ called' = "Move::new"
               /\ UNCHANGED <<game_vars, magic_vars>>

\* the bitboards pop_lsb is called on: every set of up to MaxBits squares,
\* Bitboard::UNIVERSE and the occupancy of the starting position
RECURSIVE SparseBitboards(_)
SparseBitboards(k) == IF k = 0 THEN {{}}
                      ELSE {bb \cup {s} : bb \in SparseBitboards(k - 1), s \in Squares}
                           \cup {{}}
PopInputs == SparseBitboards(MaxBits) \cup {Squares, from_fen(StartFen).board.all_occupancy}

\* the first b.pop_lsb() on a bitboard b: what it returned, and b after it
CallPopLsbOn(b, p) ==
    /\ called' = "Bitboard::pop_lsb"
    /\ call_args' = b
    /\ call_result' = [returned |-> <<p.sq>>, bb |-> p.bb]

CallPopLsb == /\ called = "none"
              /\ \E b \in PopInputs : CallPopLsbOn(b, pop_lsb(b))
              /\ UNCHANGED <<game_vars, magic_vars>>

\* b.pop_lsb() once more, until it has returned None
CallPopLsbAgainOn(p) ==
    /\ call_result' = [returned |-> Append(call_result.returned, p.sq), bb |-> p.bb]
    /\ UNCHANGED <<called, call_args>>

CallPopLsbAgain == /\ called = "Bitboard::pop_lsb"
                   /\ call_result.returned[Len(call_result.returned)] # {}
                   /\ CallPopLsbAgainOn(pop_lsb(call_result.bb))
                   /\ UNCHANGED <<game_vars, magic_vars>>

\* generate_knight_attacks(sq)
CallKnightAttacks == /\ called = "none"
                     /\ \E sq \in Squares :
                           /\ call_args' = sq
                           /\ call_result' = generate_knight_attacks(sq)
                     /\ called' = "generate_knight_attacks"
                     /\ UNCHANGED <<game_vars, magic_vars>>

\* format!("{:?}", Move::new(from, to, flag)), the text perft_driver prints
CallMoveDebug == /\ called = "none"
                 /\ \E from \in Squares, to \in Squares, flag \in 0..15 :
                       /\ call_args' = <<from, to, flag>>
                       /\ call_result' = Move_fmt(Move_new(from, to, flag))
                 /\ called' = "Move::fmt"
                 /\ UNCHANGED <<game_vars, magic_vars>>

\* Board::from_fen(fen) on a well-formed or a malformed input, in a build
\* with or without overflow checks: Ok(board), Err(message) or a panic
FromFenOutcome(r, panics) ==
    IF panics THEN [outcome |-> "panic", err |-> "", oob |-> r.oob, board |-> Board_new]
    ELSE [outcome |-> (IF r.ok THEN "Ok" ELSE "Err"), err |-> r.err, oob |-> r.oob,
          board |-> r.board]

\* Square::new on an index of 64 or more: the debug_assert fails when debug
\* assertions are on; without them the transmute is undefined, and the call
\* may end either way
from_fen_aborts(r, parts, overflow_checks, undefined_aborts) ==
    IF overflow_checks THEN r.oob \/ from_fen_overflows(parts)
    ELSE r.oob /\ undefined_aborts

CallFromFen == /\ called = "none"
               /\ \E fen \in Fens \cup MalformedFens \cup OverlongFens,
                     overflow_checks \in BOOLEAN, undefined_aborts \in BOOLEAN :
                     /\ call_args' = fen
                     /\ call_result' =
                           FromFenOutcome(from_fen(fen),
                                          from_fen_aborts(from_fen(fen), fen, overflow_checks,
                                                          undefined_aborts))
               /\ called' = "Board::from_fen"
               /\ UNCHANGED <<game_vars, magic_vars>>

\* the squares a slider on sq reaches on an empty board, and sq itself: the
\* only squares the ray walk reads
RECURSIVE SparseSubsets(_, _)
SparseSubsets(S, k) == IF k = 0 THEN {{}}
                       ELSE {bb \cup {s} : bb \in SparseSubsets(S, k - 1), s \in S}
                            \cup {{}}

\* occupancies for a slider on sq: up to MaxBits blockers on its lines, alone
\* or with every square off its lines occupied, and the full board
SliderInputs(sq, is_rook) ==
    LET lines == slow_attacks(sq, is_rook, {}) \cup {sq}
    IN {bb \cup rest : bb \in SparseSubsets(lines, MaxBits),
                       rest \in {{}, Squares \ lines}}
       \cup {Squares}

\* the slow ray walk on an occupancy and on its part inside the relevance
\* mask, and the lookup on the occupancy
CallSliderAttacks ==
    /\ called = "none"
    /\ \E sq \in Squares, is_rook \in BOOLEAN :
          \E occ \in SliderInputs(sq, is_rook) :
             /\ call_args' = <<sq, is_rook, occ>>
             /\ call_result' =
                   [slow |-> slow_attacks(sq, is_rook, occ),
                    masked |-> slow_attacks(sq, is_rook, occ \cap mask_of(sq, is_rook)),
                    mask |-> mask_of(sq, is_rook),
                    lookup |-> IF is_rook THEN get_rook_attacks(sq, occ)
                               ELSE get_bishop_attacks(sq, occ)]
    /\ called' = "slider_attacks"
    /\ UNCHANGED <<game_vars, magic_vars>>

\* a position without a legal move: "7k/5Q2/6K1/8/8/8/8/8 b - - 0 1"
StalemateFen ==
    <<<<"7", "k", "/", "5", "Q", "2", "/", "6", "K", "1", "/", "8", "/", "8", "/", "8", "/", "8", "/", "8">>, <<"b">>, <<"-">>, <<"-">>, <<"0">>, <<"1">>>>

CallPerftDriver ==
    /\ called = "none"
    /\ \E fen \in Fens \cup {StalemateFen}, depth \in 0..MaxDepth,
          overflow_checks \in BOOLEAN :
          /\ call_args' = <<from_fen(fen).board, depth>>
          /\ call_result' = perft_driver(from_fen(fen).board, depth, overflow_checks)
    /\ called' = "perft_driver"
    /\ UNCHANGED <<game_vars, magic_vars>>

CallNext == CallMoveNew \/ CallPopLsb \/ CallPopLsbAgain \/ CallKnightAttacks
            \/ CallMoveDebug \/ CallFromFen \/ CallSliderAttacks
            \/ CallPerftDriver

CallSpec == Init /\ [][CallNext]_vars

\* ------------------------------------------------------------------------
\* Position predicates (spec section 3, "Position invariants")
\* ------------------------------------------------------------------------
Loaded == status = "loaded"

\* board is the result of make_move(parent, last_move)
Made == status = "loaded" /\ ply >= 1

Sides == {White, Black}

PairwiseDisjoint(b) ==
    \A c1 \in Sides, c2 \in Sides : \A p1 \in PieceTypes, p2 \in PieceTypes :
        (c1 # c2 \/ p1 # p2) => pieces_of(b, c1)[p1] \cap pieces_of(b, c2)[p2] = {}

OccupanciesConsistent(b) ==
    /\ b.white_occupancy = UNION {b.white_pieces[p] : p \in PieceTypes}
    /\ b.black_occupancy = UNION {b.black_pieces[p] : p \in PieceTypes}
    /\ b.all_occupancy = b.white_occupancy \cup b.black_occupancy

OneKingEach(b) ==
    Cardinality(b.white_pieces[King]) = 1 /\ Cardinality(b.black_pieces[King]) = 1

NoPawnOnBackRanks(b) ==
    \A s \in b.white_pieces[Pawn] \cup b.black_pieces[Pawn] : rank(s) \notin {0, 7}

\* the side that just moved is opposite(side_to_move); its pawn stands one
\* step beyond the en-passant square in its push direction
EnPassantConsistent(b) ==
    \A ep \in b.en_passant_sq :
        /\ rank(ep) \in {2, 5}
        /\ ep \notin b.all_occupancy
        /\ IF b.side_to_move = Black
           THEN (ep + 8) \in b.white_pieces[Pawn]
           ELSE (ep - 8) \in b.black_pieces[Pawn]

CastlingConsistent(b) ==
    /\ WHITE_KINGSIDE \in b.castling_rights
          => E1 \in b.white_pieces[King] /\ H1 \in b.white_pieces[Rook]
    /\ WHITE_QUEENSIDE \in b.castling_rights
          => E1 \in b.white_pieces[King] /\ A1 \in b.white_pieces[Rook]
    /\ BLACK_KINGSIDE \in b.castling_rights
          => E8 \in b.black_pieces[King] /\ H8 \in b.black_pieces[Rook]
    /\ BLACK_QUEENSIDE \in b.castling_rights
          => E8 \in b.black_pieces[King] /\ A8 \in b.black_pieces[Rook]

PositionInvariants(b) ==
    /\ PairwiseDisjoint(b)
    /\ OccupanciesConsistent(b)
    /\ OneKingEach(b)
    /\ NoPawnOnBackRanks(b)
    /\ EnPassantConsistent(b)
    /\ CastlingConsistent(b)

\* Every position the model loads satisfies the position invariants.
LoadedPositionsValid == (Loaded /\ ply = 0) => PositionInvariants(board)

\* The rules of chess, stated on coordinates: a piece of colour a standing on
\* s attacks t under the occupancy of b.
Sign(x) == IF x > 0 THEN 1 ELSE IF x < 0 THEN -1 ELSE 0

PathClear(b, s, t) ==
    LET dr == rank(t) - rank(s)
        df == file(t) - file(s)
        n == IF Abs(dr) > Abs(df) THEN Abs(dr) ELSE Abs(df)
    IN \A k \in 1..(n - 1) :
          (((rank(s) + (k * Sign(dr))) * 8) + file(s) + (k * Sign(df))) \notin b.all_occupancy

AttacksFrom(b, s, t, a) ==
    LET dr == rank(t) - rank(s)
        df == file(t) - file(s)
        ps == pieces_of(b, a)
    IN \/ s \in ps[Pawn] /\ dr = (IF a = White THEN 1 ELSE -1) /\ Abs(df) = 1
       \/ s \in ps[Knight] /\ {Abs(dr), Abs(df)} = {1, 2}
       \/ s \in ps[King] /\ s # t /\ Abs(dr) <= 1 /\ Abs(df) <= 1
       \/ /\ s \in ps[Rook] \cup ps[Queen]
          /\ s # t /\ (dr = 0 \/ df = 0)
          /\ PathClear(b, s, t)
       \/ /\ s \in ps[Bishop] \cup ps[Queen]
          /\ s # t /\ Abs(dr) = Abs(df)
          /\ PathClear(b, s, t)

Attacked(b, t, a) ==
    \E s \in UNION {pieces_of(b, a)[p] : p \in PieceTypes} : AttacksFrom(b, s, t, a)

\* the side not to move is in check: the side to move attacks its king
OpponentInCheck(b) ==
    \E k \in pieces_of(b, opposite(b.side_to_move))[King] : Attacked(b, k, b.side_to_move)

StartBoard == from_fen(StartFen).board

\* ------------------------------------------------------------------------
\* C1
\* ------------------------------------------------------------------------
\* C1: perft on the standard starting position at depth 1 returns exactly 20.
C1_StartPerftDepth1 ==
    (Loaded /\ ply = 0 /\ board = StartBoard) => perft(board, 1) = 20

\* ------------------------------------------------------------------------
\* C2
\* ------------------------------------------------------------------------
DoublePushesEmitted(b) ==
    {m \in MoveSet(generate_all(b)) : Move_flag(m) = DOUBLE_PAWN_PUSH}

\* one double push per own pawn on its starting rank with two empty squares
\* ahead, landing two ranks ahead
DoublePushesDue(b) ==
    LET white == b.side_to_move = White
        d == IF white THEN 8 ELSE -8
        home == IF white THEN 1 ELSE 6
        pawns == pieces_of(b, b.side_to_move)[Pawn]
    IN {Move_new(s, s + (2 * d), DOUBLE_PAWN_PUSH) :
           s \in {p \in pawns : /\ rank(p) = home
                                /\ (p + d) \notin b.all_occupancy
                                /\ (p + (2 * d)) \notin b.all_occupancy}}

\* C2: the double pawn pushes emitted by generate_all are exactly one per own
\* pawn on its starting rank (rank index 1 for White, 6 for Black) whose next
\* two squares are empty, and none for any other pawn.
C2_DoublePushes == Loaded => DoublePushesEmitted(board) = DoublePushesDue(board)

\* ------------------------------------------------------------------------
\* C3
\* ------------------------------------------------------------------------
\* C3: from a position that satisfies the position invariants, after any
\* sequence of make_move calls on generated moves no square holds two pieces.
C3_PiecesDisjoint == Loaded => PairwiseDisjoint(board)

\* a second move has been made and it captured a piece
C3_Witness ==
    /\ Made /\ ply = 2
    /\ \E m \in last_move : is_capture(m)
    /\ count(board.all_occupancy) < count(parent.all_occupancy)
    /\ PairwiseDisjoint(board)

\* ------------------------------------------------------------------------
\* C4
\* ------------------------------------------------------------------------
\* C4: in every position returned by from_fen and by make_move the three
\* occupancies are the unions of their components.
C4_Occupancies == Loaded => OccupanciesConsistent(board)

\* make_move has changed the occupancy and the aggregates follow
C4_Witness ==
    /\ Made
    /\ board.all_occupancy # parent.all_occupancy
    /\ board.black_occupancy # parent.black_occupancy
    /\ OccupanciesConsistent(board)

\* ------------------------------------------------------------------------
\* C5
\* ------------------------------------------------------------------------
\* C5 as stated: every successor of a position that satisfies the position
\* invariants has exactly one king of each colour.
C5_OneKingEach_AsStated ==
    (Made /\ PositionInvariants(parent)) => OneKingEach(board)

\* C5 (amended): every successor of a position that satisfies the position
\* invariants and in which the side not to move is not in check has exactly
\* one king of each colour.
C5_OneKingEach ==
    (Made /\ PositionInvariants(parent) /\ ~OpponentInCheck(parent))
        => OneKingEach(board)

\* the king itself has moved (here: castled) from such a position
C5_Witness ==
    /\ Made /\ PositionInvariants(parent) /\ ~OpponentInCheck(parent)
    /\ \E m \in last_move : Move_flag(m) \in {K_CASTLE, Q_CASTLE}
    /\ OneKingEach(board)

\* ------------------------------------------------------------------------
\* C6
\* ------------------------------------------------------------------------
\* every generated pawn move onto rank 0 or 7 is a promotion and comes with
\* its three sister promotions
PromotionsAmong(moves, pawns) ==
    \A m \in moves :
       (Move_from(m) \in pawns /\ rank(Move_to(m)) \in {0, 7})
          => /\ is_promotion(m)
             /\ \A k \in 0..3 :
                   Move_new(Move_from(m), Move_to(m),
                            8 + (IF is_capture(m) THEN 4 ELSE 0) + k) \in moves

PromotionsComplete(b) ==
    PromotionsAmong(MoveSet(generate_all(b)), pieces_of(b, b.side_to_move)[Pawn])

\* make_move has put the promoted piece, and no pawn, on the destination
PromotionApplied(b, par, m) ==
    is_promotion(m)
       => /\ Move_to(m) \in pieces_of(b, par.side_to_move)[promo_type(Move_flag(m))]
          /\ Move_to(m) \notin pieces_of(b, par.side_to_move)[Pawn]
          /\ promo_type(Move_flag(m)) = 1 + (Move_flag(m) % 4)

C7_EnPassantSquare == Made => EnPassantConsistent(board)

\* ------------------------------------------------------------------------
\* C8
\* ------------------------------------------------------------------------
\* C8 as stated: make_move on a generated move preserves "a castling bit is
\* set only if that king and that rook are on their home squares".
C8_CastlingRights_AsStated ==
    (Made /\ CastlingConsistent(parent)) => CastlingConsistent(board)

\* C8 (amended): make_move on a generated move preserves it whenever the side
\* not to move is not in check, i.e. no generated move captures a king.
C8_CastlingRights ==
    (Made /\ CastlingConsistent(parent) /\ ~OpponentInCheck(parent))
        => CastlingConsistent(board)

\* a capture-promotion on a corner has taken a rook and its castling right
C8_Witness ==
    /\ Made /\ CastlingConsistent(parent) /\ ~OpponentInCheck(parent)
    /\ \E m \in last_move : is_promotion(m) /\ is_capture(m) /\ Move_to(m) = A8
    /\ BLACK_QUEENSIDE \in parent.castling_rights
    /\ BLACK_QUEENSIDE \notin board.castling_rights
    /\ CastlingConsistent(board)

\* ------------------------------------------------------------------------
\* C9
\* ------------------------------------------------------------------------
CastlesEmitted(b) ==
    {m \in MoveSet(generate_all(b)) : Move_flag(m) \in {K_CASTLE, Q_CASTLE}}

\* the castles the rules of section 4.7 call for
CastlesDue(b) ==
    LET us == b.side_to_move
        them == opposite(us)
        home == IF us = White THEN E1 ELSE E8
        at_home == pieces_of(b, us)[King] # {} /\ get_king_square(b, us) = {home}
        Free(sqs) == sqs \cap b.all_occupancy = {}
        Safe(sqs) == \A t \in sqs : ~Attacked(b, t, them)
    IN (IF /\ at_home
           /\ (IF us = White THEN WHITE_KINGSIDE ELSE BLACK_KINGSIDE) \in b.castling_rights
           /\ Free({home + 1, home + 2})
           /\ Safe({home, home + 1, home + 2})
        THEN {Move_new(home, home + 2, K_CASTLE)} ELSE {})
       \cup
       (IF /\ at_home
           /\ (IF us = White THEN WHITE_QUEENSIDE ELSE BLACK_QUEENSIDE) \in b.castling_rights
           /\ Free({home - 1, home - 2, home - 3})
           /\ Safe({home, home - 1, home - 2})
        THEN {Move_new(home, home - 2, Q_CASTLE)} ELSE {})

\* C9: generate_all emits K_CASTLE (Q_CASTLE) exactly when the king is on its
\* home square, the right is set, f and g (d, c and b) are empty and none of
\* the king's square, f, g (d, c) is attacked; an attacked b-square does not
\* prevent the queenside castle.
C9_Castling == Loaded => CastlesEmitted(board) = CastlesDue(board)

\* a queenside castle is emitted while the b-square is attacked
C9_Witness ==
    /\ Loaded
    /\ \E m \in CastlesEmitted(board) :
          /\ Move_flag(m) = Q_CASTLE
          /\ Attacked(board, Move_to(m) - 1, opposite(board.side_to_move))

\* ------------------------------------------------------------------------
\* Magic correctness (spec section "Magic bitboards")
\* ------------------------------------------------------------------------
\* every occupancy the fill loop has placed reads its own attack set back
\* from the slot it hashes to under the candidate magic
PlacedRight(pops, mlimbs, shift) ==
    \A i \in 0..(filled - 1) :
        slot(table, shift_right(wrapping_mul(occupancy_of(i, Len(pops), pops), mlimbs),
                                shift))
        = slow_attacks(find_sq, find_is_rook, occupancy_of(i, Len(pops), pops))

\* the slice written by initialize lies inside the square's own range of the
\* static table
SliceInRange ==
    \A j \in DOMAIN static_table :
        /\ j >= entry.offset
        /\ j < entry.offset + (2 ^ bits_of(find_sq, find_is_rook))
        /\ j < (IF find_is_rook THEN ROOK_TABLE_LEN ELSE BISHOP_TABLE_LEN)

\* C10: after initialize has stored the entry and the table of a square, for
\* every blocker subset v of the square's relevance mask the lookup
\* (get_rook_attacks / get_bishop_attacks) returns the slow ray walk on v;
\* and in every pass of find_magic's loop the fill step, which takes an
\* all-zero slot for an empty one, leaves each occupancy it has placed
\* reading its own attack set, so that two occupancies share a slot only
\* when their attack sets are equal; a returned table holds all of them.
C10_MagicLookups ==
    /\ (last_pass = "lookup")
         => lookup_result = slow_attacks(find_sq, find_is_rook, lookup_blockers)
    /\ (last_pass \in {"fail", "returned"})
         => PlacedRight(PopSeq(find_mask), Limbs(magic),
                        64 - bits_of(find_sq, find_is_rook))
    /\ (last_pass = "returned") => filled = 2 ^ count(find_mask)
    /\ (last_pass = "initialized")
         => /\ entry.mask = find_mask
            /\ entry.magic = magic
            /\ SliceInRange

\* a rook lookup, after initialize, on blockers that cut a ray short
C10_Witness ==
    /\ last_pass = "lookup"
    /\ find_is_rook
    /\ lookup_blockers # {}
    /\ lookup_result = generate_rook_attacks_slow(find_sq, lookup_blockers)
    /\ lookup_result # generate_rook_attacks_slow(find_sq, {})

\* reachability of the other cases of C10: a bishop lookup, and a pass in
\* which the fill step accepted a collision (two occupancies in one slot)
\* before it failed
BishopLookedUp ==
    /\ last_pass = "lookup"
    /\ ~find_is_rook
    /\ lookup_result # generate_bishop_attacks_slow(find_sq, {})
CollisionAccepted == last_pass = "fail" /\ Cardinality(DOMAIN table) < filled

\* ------------------------------------------------------------------------
\* Claims on single functions
\* ------------------------------------------------------------------------
\* C11 as stated: for every from and to in 0..63 and flag in 0..15, the move
\* Move::new(from, to, flag) gives back from, to and flag through its
\* accessors; is_capture is true exactly for the flags 4, 5, 12..15 and
\* is_promotion exactly for the flags 8..15.
C11_MoveRoundTrip_AsStated ==
    (called = "Move::new")
      => /\ call_result.from = call_args[1]
         /\ call_result.to = call_args[2]
         /\ call_result.flag = call_args[3]
         /\ call_result.is_capture <=> (call_args[3] \in {4, 5, 12, 13, 14, 15})
         /\ call_result.is_promotion <=> (call_args[3] \in 8..15)

\* C11: for every from and to in 0..63 and flag in 0..15, the move
\* Move::new(from, to, flag) gives back from, to and flag through its
\* accessors; is_capture is true exactly for the flags with bit 2 set
\* (4..7 and 12..15) and is_promotion exactly for those with bit 3 set
\* (8..15).
C11_MoveRoundTrip ==
    (called = "Move::new")
      => /\ call_result.from = call_args[1]
         /\ call_result.to = call_args[2]
         /\ call_result.flag = call_args[3]
         /\ call_result.is_capture <=> ((call_args[3] \div 4) % 2 = 1)
         /\ call_result.is_promotion <=> ((call_args[3] \div 8) % 2 = 1)

\* a capturing promotion from h8 to a1: every field at an extreme
C11_Witness ==
    /\ called = "Move::new"
    /\ call_args = <<H8, A1, Q_PROMO_CAP>>
    /\ call_result.is_capture
    /\ call_result.is_promotion
    /\ call_result.from = H8

\* the squares a sequence of pops returned, and the number of pops that
\* returned one
PoppedSquares(returned) == UNION {returned[i] : i \in 1..Len(returned)}
Successes(returned) == Cardinality({i \in 1..Len(returned) : returned[i] # {}})

\* C12: pop_lsb called repeatedly on a bitboard b returns set squares of b
\* in strictly ascending order, each once and always the lowest one left;
\* every successful pop lowers count() by one and removes the square
\* returned; after count(b) pops the bitboard is empty, and pop_lsb returns
\* None only on the empty bitboard, which it leaves empty.
C12_PopLsb ==
    (called = "Bitboard::pop_lsb")
      => /\ \A i \in 1..Len(call_result.returned) :
               Cardinality(call_result.returned[i]) <= 1
         /\ \A i \in 1..Len(call_result.returned), j \in 1..Len(call_result.returned) :
               (i < j /\ call_result.returned[j] # {})
                 => \E x \in call_result.returned[i], y \in call_result.returned[j] : x < y
         /\ PoppedSquares(call_result.returned) \subseteq call_args
         /\ call_result.bb = call_args \ PoppedSquares(call_result.returned)
         /\ \A x \in PoppedSquares(call_result.returned), y \in call_result.bb : x < y
         /\ count(call_result.bb) = count(call_args) - Successes(call_result.returned)
         /\ (Successes(call_result.returned) = count(call_args)) => call_result.bb = EMPTY
         /\ (call_result.returned[Len(call_result.returned)] = {})
              => /\ call_result.bb = EMPTY
                 /\ Successes(call_result.returned) = count(call_args)
                 /\ Len(call_result.returned) = count(call_args) + 1

\* the full board popped to the end: 64 squares returned, then None
C12_Witness ==
    /\ called = "Bitboard::pop_lsb"
    /\ call_args = Squares
    /\ Len(call_result.returned) = 65
    /\ call_result.returned[1] = {A1}
    /\ call_result.returned[64] = {H8}
    /\ call_result.returned[65] = {}
    /\ call_result.bb = EMPTY

\* squares by place: corners, the edge, the central 4x4 block, and the edge
\* squares one file or one rank away from a corner
OnEdge(s) == rank(s) \in {0, 7} \/ file(s) \in {0, 7}
IsCorner(s) == rank(s) \in {0, 7} /\ file(s) \in {0, 7}
InCentre(s) == rank(s) \in 2..5 /\ file(s) \in 2..5
NextToCorner(s) == \/ rank(s) \in {0, 7} /\ file(s) \in {1, 6}
                   \/ file(s) \in {0, 7} /\ rank(s) \in {1, 6}

\* the knight jumps from s, by coordinates
KnightJumps(s) ==
    {t \in Squares : <<Abs(rank(t) - rank(s)), Abs(file(t) - file(s))>>
                       \in {<<1, 2>>, <<2, 1>>}}

\* C13 as stated: generate_knight_attacks(sq) has two squares on a corner,
\* four on every other edge square, and eight in the central 4x4 block.
C13_KnightCounts_AsStated ==
    (called = "generate_knight_attacks")
      => /\ IsCorner(call_args) => count(call_result) = 2
         /\ (OnEdge(call_args) /\ ~IsCorner(call_args)) => count(call_result) = 4
         /\ InCentre(call_args) => count(call_result) = 8

\* C13: generate_knight_attacks(sq) is the set of knight jumps from sq: two
\* squares on a corner, three on the eight edge squares next to a corner,
\* four on every other edge square, and eight in the central 4x4 block.
C13_KnightCounts ==
    (called = "generate_knight_attacks")
      => /\ call_result = KnightJumps(call_args)
         /\ IsCorner(call_args) => count(call_result) = 2
         /\ NextToCorner(call_args) => count(call_result) = 3
         /\ (OnEdge(call_args) /\ ~IsCorner(call_args) /\ ~NextToCorner(call_args))
              => count(call_result) = 4
         /\ InCentre(call_args) => count(call_result) = 8

\* the knight on g1: an edge square next to a corner, three jumps
C13_Witness ==
    /\ called = "generate_knight_attacks"
    /\ call_args = G1
    /\ count(call_result) = 3

\* ------------------------------------------------------------------------
\* C14
\* ------------------------------------------------------------------------
\* the mover's king is not attacked in next by the side then to move, by the
\* rules on coordinates
LegalAfter(pos, next) ==
    \A k \in pieces_of(next, pos.side_to_move)[King] :
        ~Attacked(next, k, next.side_to_move)

\* the sum of perft(next, d - 1) over the generated moves, from the i-th on,
\* whose successor is legal
RECURSIVE SumLegal(_, _, _, _)
SumLegalAt(pos, next, moves, i, d) ==
    (IF LegalAfter(pos, next) THEN perft(next, d - 1) ELSE 0)
    + SumLegal(pos, moves, i + 1, d)
SumLegal(pos, moves, i, d) ==
    IF i > Len(moves) THEN 0
    ELSE SumLegalAt(pos, make_move(pos, moves[i]), moves, i, d)

PerftAsClaimed(pos, d) ==
    IF d = 0 THEN 1 ELSE SumLegal(pos, generate_all(pos), 1, d)

\* the depths perft is called with: up to MaxDepth on a loaded position, 0
\* and 1 on the positions reached from it
DepthsHere == 0..(IF ply = 0 THEN MaxDepth ELSE 1)

\* C14 as stated: on every position perft(pos, 0) returns 1 and perft(pos, d)
\* returns the sum of perft(next, d - 1) over the generated moves whose
\* successor does not have the mover's king attacked by the side to move.
C14_PerftFilter_AsStated ==
    Loaded => \A d \in DepthsHere :
                 ~perft_panics(board, d) /\ perft(board, d) = PerftAsClaimed(board, d)

\* C14: on every position with one king of each colour in which the side
\* not to move is not in check, perft(pos, 0) returns 1 and perft(pos, d)
\* returns the sum of perft(next, d - 1) over the generated moves whose
\* successor does not have the mover's king attacked by the side to move;
\* a move that leaves the mover's king in check counts 0.
C14_PerftFilter ==
    (Loaded /\ OneKingEach(board) /\ ~OpponentInCheck(board))
      => \A d \in DepthsHere :
            ~perft_panics(board, d) /\ perft(board, d) = PerftAsClaimed(board, d)

\* a generated move of the given kind from b that leaves the mover in check
IllegalAmong(b, moves, flags, pieces) ==
    \E m \in moves : /\ Move_flag(m) \in flags
                     /\ Move_from(m) \in pieces
                     /\ ~LegalAfter(b, make_move(b, m))

\* the position with the pinned bishop: a bishop move and the en-passant
\* capture are generated and count 0
C14_Witness ==
    /\ Loaded /\ ply = 0
    /\ board = from_fen(PinnedFen).board
    /\ ~OpponentInCheck(board)
    /\ IllegalAmong(board, MoveSet(generate_all(board)), {QUIET}, board.white_pieces[Bishop])
    /\ IllegalAmong(board, MoveSet(generate_all(board)), {EP_CAPTURE}, board.white_pieces[Pawn])
    /\ perft(board, 1) < Len(generate_all(board))
    /\ perft(board, 2) = PerftAsClaimed(board, 2)

\* ------------------------------------------------------------------------
\* C15
\* ------------------------------------------------------------------------
\* a square in lowercase algebraic notation: file a..h, rank 1..8
Algebraic(sq) == <<LowerLetters[file(sq) + 1], Digits[rank(sq) + 2]>>

\* the promotion letter of a promotion flag, by the piece promoted to
PromotionLetter(flag) == <<<<"n">>, <<"b">>, <<"r">>, <<"q">>>>[(flag % 4) + 1]

\* C15: the text printed for a move is the from-square then the to-square in
\* lowercase algebraic notation, followed by one of n, b, r, q exactly when
\* the move is a promotion (e7e8q for a queen promotion from e7 to e8).
C15_MoveNotation ==
    (called = "Move::fmt")
      => call_result = Algebraic(call_args[1]) \o Algebraic(call_args[2])
                       \o (IF call_args[3] \in 8..15
                           THEN PromotionLetter(call_args[3]) ELSE <<>>)

\* ------------------------------------------------------------------------
\* C16
\* ------------------------------------------------------------------------
\* the classes of malformed input, read off the fields themselves
CountOf(chars, c) == Cardinality({i \in 1..Len(chars) : chars[i] = c})
LacksField(parts) == Len(parts) < 4
WrongRankCount(parts) == Len(parts) >= 1 /\ CountOf(parts[1], "/") # 7
UnknownPieceLetter(parts) ==
    /\ Len(parts) >= 1
    /\ \E i \in 1..Len(parts[1]) :
          parts[1][i] \notin {"/", "1", "2", "3", "4", "5", "6", "7", "8",
                              "p", "n", "b", "r", "q", "k", "P", "N", "B", "R", "Q", "K"}
BadCastlingField(parts) ==
    /\ Len(parts) >= 3 /\ parts[3] # <<"-">>
    /\ \E i \in 1..Len(parts[3]) : parts[3][i] \notin {"K", "Q", "k", "q"}
BadEnPassantField(parts) ==
    /\ Len(parts) >= 4 /\ parts[4] # <<"-">>
    /\ ~(/\ Len(parts[4]) = 2
         /\ parts[4][1] \in {"a", "b", "c", "d", "e", "f", "g", "h"}
         /\ parts[4][2] \in {"1", "2", "3", "4", "5", "6", "7", "8"})
Malformed(parts) ==
    \/ LacksField(parts) \/ WrongRankCount(parts) \/ UnknownPieceLetter(parts)
    \/ BadCastlingField(parts) \/ BadEnPassantField(parts)

\* C16: from_fen returns Err on every input that lacks one of the four
\* consumed fields, has a rank count other than 8, an unknown piece letter,
\* a castling character outside KQkq, or an en-passant field that is neither
\* "-" nor a square a1..h8.
C16_FenErrors ==
    (called = "Board::from_fen" /\ Malformed(call_args))
      => call_result.outcome = "Err"

\* ------------------------------------------------------------------------
\* C17
\* ------------------------------------------------------------------------
\* the forward definition of a pawn attack: a pawn of colour a on s whose own
\* attack pattern contains t
PawnAttacksForward(b, t, a) ==
    \E s \in pieces_of(b, a)[Pawn] : t \in generate_pawn_attacks(s, a)

\* the reverse lookup of is_square_attacked: the pattern of the opposite
\* colour taken from t meets a pawn of colour a
PawnAttacksReverse(b, t, a) ==
    generate_pawn_attacks(t, opposite(a)) \cap pieces_of(b, a)[Pawn] # {}

\* C17: in every position with consistent occupancies, for every square t and
\* colour a, is_square_attacked(t, a) holds exactly when some piece of colour a
\* attacks t by the rules of chess under all_occupancy, and the reverse pawn
\* lookup agrees with the forward pawn attack on all 64 squares.
C17_SquareAttacked ==
    (Loaded /\ OccupanciesConsistent(board)) =>
        \A t \in Squares, a \in Sides :
            /\ is_square_attacked(board, t, a) <=> Attacked(board, t, a)
            /\ PawnAttacksReverse(board, t, a) <=> PawnAttacksForward(board, t, a)

\* after a move, a pawn on the a- or h-file attacks a square, some square is
\* attacked by a slider only, and a slider's line to some square is obstructed
C17_Witness ==
    /\ Made /\ OccupanciesConsistent(board)
    /\ \E t \in Squares, a \in Sides :
          /\ is_square_attacked(board, t, a)
          /\ \E s \in pieces_of(board, a)[Pawn] :
                file(s) \in {0, 7} /\ t \in generate_pawn_attacks(s, a)
    /\ \E t \in Squares, a \in Sides :
          /\ is_square_attacked(board, t, a)
          /\ \A s \in UNION {pieces_of(board, a)[p] : p \in PieceTypes} :
                AttacksFrom(board, s, t, a) => s \in pieces_of(board, a)[Queen]
    /\ \E t \in Squares, a \in Sides :
          /\ ~is_square_attacked(board, t, a)
          /\ \E s \in pieces_of(board, a)[Rook] \cup pieces_of(board, a)[Bishop] :
                s # t /\ ~PathClear(board, s, t)
                /\ (rank(s) = rank(t) \/ file(s) = file(t))

\* ------------------------------------------------------------------------
\* C18
\* ------------------------------------------------------------------------
\* the square a double push skips: between from and to, one step behind `to`
\* from the mover's side
SkippedSquare(m, us) == IF us = White THEN Move_to(m) - 8 ELSE Move_to(m) + 8

\* what the claim says of the successor n of position b by move m
StateAfter(b, m, n) ==
    /\ n.side_to_move = opposite(b.side_to_move)
    /\ (n.en_passant_sq # {}) <=> (Move_flag(m) = DOUBLE_PAWN_PUSH)
    /\ Move_flag(m) = DOUBLE_PAWN_PUSH =>
          /\ n.en_passant_sq = {SkippedSquare(m, b.side_to_move)}
          /\ 2 * SkippedSquare(m, b.side_to_move) = Move_from(m) + Move_to(m)
    /\ Move_flag(m) # DOUBLE_PAWN_PUSH => n.en_passant_sq = {}

\* C18: for every position and every move of generate_all, the successor of
\* make_move has the side to move flipped, and an en-passant square exactly
\* when the move is a double pawn push, in which case it is the square the
\* pawn skipped; every other move clears the parent's en-passant square.
C18_StateAfterMove ==
    /\ Made => \A m \in last_move : StateAfter(parent, m, board)
    /\ Loaded => \A m \in MoveSet(generate_all(board)) :
                    /\ make_move_panics(board, m) = {}
                    /\ StateAfter(board, m, make_move(board, m))

\* a double push by Black has just set the en-passant square to the square
\* it skipped, and a reply that is no double push clears it
C18_Witness ==
    /\ Made /\ parent.side_to_move = Black
    /\ \E m \in last_move :
          /\ Move_flag(m) = DOUBLE_PAWN_PUSH
          /\ board.en_passant_sq = {SkippedSquare(m, Black)}
    /\ \E r \in MoveSet(generate_all(board)) :
          /\ Move_flag(r) # DOUBLE_PAWN_PUSH
          /\ make_move(board, r).en_passant_sq = {}

\* ------------------------------------------------------------------------
\* C19
\* ------------------------------------------------------------------------
IsCastle(m) == Move_flag(m) \in {K_CASTLE, Q_CASTLE}

BackRank(us) == IF us = White THEN 0 ELSE 7

\* the square on file f of the back rank of us
BackSquare(us, f) == (BackRank(us) * 8) + f

\* what the claim says of the successor n of position b by the castle move m
CastleEffects(b, m, n) ==
    LET us == b.side_to_move
        kingside == Move_flag(m) = K_CASTLE
        king_to == BackSquare(us, IF kingside THEN 6 ELSE 2)
        rook_from == BackSquare(us, IF kingside THEN 7 ELSE 0)
        rook_to == BackSquare(us, IF kingside THEN 5 ELSE 3)
    IN /\ pieces_of(n, us)[King] = {king_to}
       /\ rook_from \in pieces_of(b, us)[Rook]
       /\ pieces_of(n, us)[Rook] = (pieces_of(b, us)[Rook] \ {rook_from}) \cup {rook_to}
       /\ rook_to \notin pieces_of(b, us)[Rook]
       /\ n.castling_rights \cap BothSides(us) = {}
       /\ n.castling_rights \cap BothSides(opposite(us))
             = b.castling_rights \cap BothSides(opposite(us))
       /\ \A c \in Sides, p \in PieceTypes :
             Cardinality(pieces_of(n, c)[p]) = Cardinality(pieces_of(b, c)[p])

\* C19: when make_move applies a generated castle move in a position that
\* satisfies the castling-rights invariant, the successor has the mover's king
\* on g or c of its back rank, the rook moved from h to f or from a to d, both
\* of the mover's castling bits cleared, the opponent's bits unchanged, and
\* the number of pieces of each colour and type unchanged.
C19_CastleEffects ==
    /\ (Made /\ CastlingConsistent(parent)) =>
          \A m \in last_move : IsCastle(m) => CastleEffects(parent, m, board)
    /\ (Loaded /\ CastlingConsistent(board)) =>
          \A m \in MoveSet(generate_all(board)) :
              IsCastle(m) => /\ make_move_panics(board, m) = {}
                             /\ CastleEffects(board, m, make_move(board, m))

\* a queenside castle has just been made from a position that satisfies the
\* castling-rights invariant, in which the mover held both rights and the
\* opponent held one
C19_Witness ==
    /\ Made /\ CastlingConsistent(parent)
    /\ BothSides(parent.side_to_move) \subseteq parent.castling_rights
    /\ parent.castling_rights \cap BothSides(board.side_to_move) # {}
    /\ \E m \in last_move : Move_flag(m) = Q_CASTLE
    /\ D1 \in board.white_pieces[Rook] \/ D8 \in board.black_pieces[Rook]

\* ------------------------------------------------------------------------
\* C20
\* ------------------------------------------------------------------------
\* the sum of the sub-table sizes 2^bits over a set of squares
RECURSIVE SizesOver(_, _)
SizesOver(S, is_rook) ==
    IF S = {} THEN 0
    ELSE LET s == CHOOSE x \in S : TRUE
         IN (2 ^ bits_of(s, is_rook)) + SizesOver(S \ {s}, is_rook)

TableLen(is_rook) == IF is_rook THEN ROOK_TABLE_LEN ELSE BISHOP_TABLE_LEN

\* the range of the flat table that belongs to the square
SubTable(sq, is_rook) ==
    offset_of(sq, is_rook)..(offset_of(sq, is_rook) + (2 ^ bits_of(sq, is_rook)) - 1)

\* the offsets are the running prefix sums: the sub-table of the square
\* starts where those of the squares before it end, the next one starts where
\* it ends, it meets no other sub-table and lies inside the flat table
PrefixSums(sq, is_rook) ==
    /\ offset_of(sq, is_rook) = SizesOver(0..(sq - 1), is_rook)
    /\ sq < 63 => offset_of(sq + 1, is_rook)
                     = offset_of(sq, is_rook) + (2 ^ bits_of(sq, is_rook))
    /\ \A s2 \in Squares \ {sq} : SubTable(sq, is_rook) \cap SubTable(s2, is_rook) = {}
    /\ SubTable(sq, is_rook) \subseteq 0..(TableLen(is_rook) - 1)

\* ((occ & mask) * magic mod 2^64) >> (64 - bits), for the square and the
\* magic number at hand
LookupIndex(occ) ==
    shift_right(wrapping_mul(occ \cap find_mask, Limbs(magic)),
                64 - bits_of(find_sq, find_is_rook))

IndexInside(idx) ==
    /\ idx >= 0
    /\ idx < 2 ^ bits_of(find_sq, find_is_rook)
    /\ offset_of(find_sq, find_is_rook) + idx < TableLen(find_is_rook)

\* C20: the sub-table sizes 2^ROOK_BITS[s] sum to 102,400 and 2^BISHOP_BITS[s]
\* to 5,248; the offsets assigned by initialize are the running prefix sums,
\* so the sub-tables are contiguous and do not overlap; and the lookup index
\* of every occupancy is below 2^bits, so offset + index lies inside the flat
\* table: for the full mask and for the whole board under every magic number
\* drawn, for every slot the fill loop wrote, and for every lookup.
C20_TableLayout ==
    /\ (last_pass = "entered") =>
          /\ SizesOver(Squares, TRUE) = ROOK_TABLE_LEN
          /\ SizesOver(Squares, FALSE) = BISHOP_TABLE_LEN
          /\ PrefixSums(find_sq, find_is_rook)
    /\ (last_pass \in {"continue", "fail", "returned"}) =>
          /\ IndexInside(LookupIndex(find_mask))
          /\ IndexInside(LookupIndex(Squares))
          /\ \A idx \in DOMAIN table : IndexInside(idx)
    /\ (last_pass \in {"initialized", "lookup"}) =>
          /\ entry.offset = SizesOver(0..(find_sq - 1), find_is_rook)
          /\ entry.shift = 64 - bits_of(find_sq, find_is_rook)
    /\ (last_pass = "lookup") =>
          /\ IndexInside(LookupIndex(lookup_blockers))
          /\ (entry.offset + LookupIndex(lookup_blockers)) \in SubTable(find_sq, find_is_rook)

\* a lookup, on a square whose sub-table does not start the flat table, that
\* reads the upper half of the sub-table
C20_Witness ==
    /\ last_pass = "lookup"
    /\ entry.offset > 0
    /\ 2 * LookupIndex(lookup_blockers) >= 2 ^ bits_of(find_sq, find_is_rook)

\* ------------------------------------------------------------------------
\* C21
\* ------------------------------------------------------------------------
\* C21: for every square and every occupancy, the slow ray walk of a rook
\* (bishop) on the occupancy equals the walk on the occupancy inside
\* mask_rook (mask_bishop); the population of the mask is ROOK_BITS[s]
\* (BISHOP_BITS[s]); and the lookup on the full occupancy returns the slow
\* walk on it.
C21_MaskSuffices ==
    (called = "slider_attacks") =>
        /\ call_result.slow = call_result.masked
        /\ count(call_result.mask) = bits_of(call_args[1], call_args[2])
        /\ call_result.lookup = call_result.slow

\* a rook walk on an occupancy with a blocker inside the mask, a blocker on
\* its line outside the mask and occupied squares off its lines; and the
\* walk is cut short
C21_Witness ==
    /\ called = "slider_attacks"
    /\ call_args[2]
    /\ call_args[3] \cap call_result.mask # {}
    /\ (call_args[3] \cap slow_attacks(call_args[1], TRUE, {})) \ call_result.mask # {}
    /\ call_args[3] \ (slow_attacks(call_args[1], TRUE, {}) \cup {call_args[1]}) # {}
    /\ call_result.slow # slow_attacks(call_args[1], TRUE, {})

\* ------------------------------------------------------------------------
\* C22
\* ------------------------------------------------------------------------
\* the square of the pawn an en-passant capture removes: `to` shifted one
\* rank back toward the capturer (the number the code computes, which may
\* lie off the board)
ep_cap_sq(b, m) == IF b.side_to_move = White THEN Move_to(m) - 8 ELSE Move_to(m) + 8

\* what the claim says of the move m generated in position b
MoveIsSound(b, m) ==
    LET us == b.side_to_move
        them == opposite(us)
    IN /\ make_move_panics(b, m) = {}
       /\ get_piece_type_at(b, Move_from(m), us) # {}
       /\ (is_capture(m) /\ Move_flag(m) # EP_CAPTURE)
             => get_piece_type_at(b, Move_to(m), them) # {}
       /\ Move_flag(m) = EP_CAPTURE
             => /\ ep_cap_sq(b, m) \in Squares
                /\ ep_cap_sq(b, m) \in pieces_of(b, them)[Pawn]
       /\ ~is_capture(m) => Move_to(m) \notin b.all_occupancy
       /\ is_promotion(m) => Move_flag(m) \in 8..15

\* C22: in every position that satisfies the position invariants, make_move
\* on any move of generate_all reaches none of its fatal paths: a piece of
\* the side to move stands on `from`, a capture other than en passant finds
\* an enemy piece on `to`, an en-passant capture finds an enemy pawn on the
\* square one rank behind `to`, which lies on the board, a non-capture lands
\* on an empty square, and a promotion flag is one of the eight valid values.
C22_MakeMoveSafe ==
    /\ (Loaded /\ PositionInvariants(board)) =>
          \A m \in MoveSet(generate_all(board)) : MoveIsSound(board, m)
    /\ (status = "panicked") => ~PositionInvariants(board)

\* an en-passant capture has just been made from a position that satisfies
\* the position invariants: the captured pawn is gone
C22_Witness ==
    /\ Made /\ PositionInvariants(parent)
    /\ \E m \in last_move :
          /\ Move_flag(m) = EP_CAPTURE
          /\ ep_cap_sq(parent, m) \in pieces_of(parent, board.side_to_move)[Pawn]
          /\ ep_cap_sq(parent, m) \notin board.all_occupancy
          /\ Move_to(m) \in pieces_of(board, parent.side_to_move)[Pawn]

\* ------------------------------------------------------------------------
\* C23
\* ------------------------------------------------------------------------
PlacementChars == {"/", "0", "1", "2", "3", "4", "5", "6", "7", "8", "9",
                   "p", "n", "b", "r", "q", "k", "P", "N", "B", "R", "Q", "K"}

\* a placement field of eight rows of digits and piece letters
EightRowsOfPieces(parts) ==
    /\ Len(parts) >= 2
    /\ CountOf(parts[1], "/") = 7
    /\ \A i \in 1..Len(parts[1]) : parts[1][i] \in PlacementChars

\* the number of piece letters of a row
LettersOf(row) ==
    Cardinality({i \in 1..Len(row) : row[i] \notin {"0", "1", "2", "3", "4", "5", "6", "7",
                                                      "8", "9"}})

PiecesOnRank(b, r) ==
    {s \in UNION {pieces_of(b, c)[p] : c \in Sides, p \in PieceTypes} : rank(s) = r}

\* every piece of row i stands on rank 7 - i (rows counted from 0)
RowsOnTheirRanks(parts, b) ==
    LET rows == split_rows(parts[1], <<>>)
    IN \A i \in 1..8 : Cardinality(PiecesOnRank(b, 8 - i)) = LettersOf(rows[i])

\* C23: on a placement field of eight rows of digits and piece letters,
\* from_fen either returns Err or places every piece of row i on rank 7 - i;
\* it computes no square index of 64 or more and places no piece on a rank
\* other than the one its row describes.
C23_PlacementInBounds ==
    (called = "Board::from_fen" /\ EightRowsOfPieces(call_args)) =>
        \/ call_result.outcome = "Err"
        \/ /\ call_result.outcome = "Ok"
           /\ ~call_result.oob
           /\ RowsOnTheirRanks(call_args, call_result.board)

\* ------------------------------------------------------------------------
\* C24
\* ------------------------------------------------------------------------
\* C24: for every position with both kings and every depth d of the u8
\* range, the total accumulated by perft_driver(board, d) equals
\* perft(board, d), and the subtraction depth - 1 of the child call does not
\* underflow.
C24_DriverTotal ==
    (called = "perft_driver" /\ OneKingEach(call_args[1])) =>
        /\ call_result.outcome = "returned"
        /\ call_result.total = {perft(call_args[1], call_args[2])}
        /\ call_result.child_depth = call_args[2] - 1

\* the same from depth 1 on: the driver returns the count of perft
DriverTotalFromDepthOne ==
    (called = "perft_driver" /\ OneKingEach(call_args[1]) /\ call_args[2] >= 1) =>
        /\ call_result.outcome = "returned"
        /\ call_result.total = {perft(call_args[1], call_args[2])}
        /\ call_result.child_depth = call_args[2] - 1

\* at depth 0 the driver returns only when no move passes the filter, and
\* then with a total of 0, where perft returns 1
DriverAtDepthZero ==
    (called = "perft_driver" /\ OneKingEach(call_args[1]) /\ call_args[2] = 0) =>
        /\ perft(call_args[1], 0) = 1
        /\ call_result.outcome = "returned" => call_result.total = {0}
        /\ call_result.outcome # "returned" => call_result.child_depth = 255

\* ------------------------------------------------------------------------
\* C25
\* ------------------------------------------------------------------------
\* a position perft may recurse on: one king of each colour, and the side
\* not to move not in check
Recursable(b) == OneKingEach(b) /\ ~OpponentInCheck(b)

\* a generated move that captures a king
KingCaptures(b) ==
    {m \in MoveSet(generate_all(b)) :
        is_capture(m) /\ Move_to(m) \in pieces_of(b, opposite(b.side_to_move))[King]}

\* C25: from a position that satisfies the position invariants and in which
\* the side not to move is not in check, every successor that passes the
\* legality filter of perft has one king of each colour and the side not to
\* move not in check (so the property passes down the recursion); on such a
\* position get_king_square finds the mover's king in every successor,
\* perft does not fail with "Board has no King!", and no king capture is
\* generated.
C25_KingsKept ==
    /\ (Loaded /\ ply = 0 /\ PositionInvariants(board) /\ ~OpponentInCheck(board))
          => Recursable(board)
    /\ (Made /\ Recursable(parent) /\ passes_filter(parent, board)) => Recursable(board)
    /\ (Loaded /\ Recursable(board)) =>
          /\ \A m \in MoveSet(generate_all(board)) :
                get_king_square(make_move(board, m), board.side_to_move) # {}
          /\ KingCaptures(board) = {}
          /\ \A d \in DepthsHere : ~perft_panics(board, d)

\* two plies down the recursion: both moves passed the filter, the second
\* one a capture, and a sibling of the second was filtered out
C25_Witness ==
    /\ Made /\ ply = 2
    /\ Recursable(parent) /\ passes_filter(parent, board) /\ Recursable(board)
    /\ \E m \in last_move : is_capture(m)
    /\ \E m \in MoveSet(generate_all(parent)) :
          ~passes_filter(parent, make_move(parent, m))

====
